---- MODULE Spec2Model ----
(***************************************************************************)
(* A model of the typed prefix-keyed store (scribe/db/prefixes.py) and of  *)
(* the claim modification model (hub/schema/attrs.py).                     *)
(*                                                                         *)
(* Bytes are sequences of 0..255.  A Python int is a sequence of base-2^16 *)
(* limbs, most significant first, without leading zeros (0 is <<>>); a     *)
(* negative int is <<-1>> followed by the limbs of its magnitude.  A str   *)
(* is a sequence of code points.                                           *)
(***************************************************************************)
EXTENDS Integers, Sequences, FiniteSets, TLC

VARIABLES
    row,        \* the row whose pack_item is applied
    key,        \* the key tuple handed to pack_key
    value,      \* the value tuple handed to pack_value
    packed,     \* [key, value]: what pack_key / pack_value returned
    decoder,    \* the row whose unpack_key / unpack_value is applied
    unpacked,   \* [key, value]: what unpack_key / unpack_value returned
    parts,      \* the partial keys built by key_part_lambdas[0..]
    decoded,    \* the pair handed to auto_decode_item and what it returned
    pc,         \* position of the client of the rows, of the writer, of the editor
    store,             \* the raw store: the keys present, each with its value
    op_stack,          \* the ops enqueued since the last apply_batch
    unsafe_prefixes,   \* the prefixes PrefixDB was constructed with
    height,            \* height of the last block committed and not rolled back
    staged,            \* number of ops enqueued so far
    chain,             \* per committed block: its hash, the store before it, its ops
    last,              \* the last call of apply_batch or rollback: its arguments and
                       \* outcome, whether it had an undo entry to find, whether it
                       \* came right after the block's apply_batch, and the store
                       \* before the block and the block's ops
    claim,             \* the extension map being edited
    modifier,          \* the extension map merged into it
    original,          \* the extension map as it was before the first merge
    trace,             \* the merges so far: mode, outcome, the map after it
    reposted,          \* the claim handed to apply: its type and extension map
    mods,              \* the modifier: its modification type, deletions and edits
    result,            \* what apply returned
    kwargs,            \* the last call of update: its arguments, the modifier
                       \* before it, and what it returned
    fee,               \* the fee message: amount, currency, address
    call,              \* the last call of Fee.update: its arguments, the fee
                       \* before it, and its outcome
    lang,              \* the language message: language, script, region
    tagged             \* the last call of a setter of Language: its argument, its
                       \* outcome, and what the getter returns after it

codec_vars == <<row, key, value, packed, decoder, unpacked, parts, decoded>>
store_vars == <<store, op_stack, unsafe_prefixes, height, staged, chain, last>>
merge_vars == <<claim, modifier, original, trace>>
apply_vars == <<reposted, mods, result, kwargs>>
fee_vars == <<fee, call>>
lang_vars == <<lang, tagged>>
vars == <<codec_vars, store_vars, merge_vars, apply_vars, fee_vars, lang_vars, pc>>

\* what the steps of one component leave alone
NotCodec == <<store_vars, merge_vars, apply_vars, fee_vars, lang_vars>>
NotStore == <<codec_vars, merge_vars, apply_vars, fee_vars, lang_vars>>
NotMerge == <<codec_vars, store_vars, apply_vars, fee_vars, lang_vars>>
NotApply == <<codec_vars, store_vars, merge_vars, fee_vars, lang_vars>>
NotFee == <<codec_vars, store_vars, merge_vars, apply_vars, lang_vars>>
NotLang == <<codec_vars, store_vars, merge_vars, apply_vars, fee_vars>>

(***************************************************************************)
(* Results: a call either returns a value or raises.                       *)
(***************************************************************************)
Ok(v) == [ok |-> TRUE, val |-> v]
Raise == [ok |-> FALSE, val |-> <<>>]

\* Python's None where a name of a oneof member is expected
None == "None"

Min(a, b) == IF a < b THEN a ELSE b

\* bytes[lo:hi] with Python's clamping of the bounds
Slice(b, lo, hi) == SubSeq(b, lo + 1, Min(hi, Len(b)))

\* bytes[lo:]
SliceFrom(b, lo) == SubSeq(b, lo + 1, Len(b))

RECURSIVE Concat(_)
Concat(ss) == IF ss = <<>> THEN <<>> ELSE Head(ss) \o Concat(Tail(ss))

IsPrefix(a, b) == Len(a) <= Len(b) /\ SubSeq(b, 1, Len(a)) = a

IsStrictPrefix(a, b) == Len(a) < Len(b) /\ SubSeq(b, 1, Len(a)) = a

\* a < b for byte strings (the store's byte comparator)
RECURSIVE BytesLess(_, _)
BytesLess(a, b) ==
    IF b = <<>> THEN FALSE
    ELSE IF a = <<>> THEN TRUE
    ELSE IF Head(a) # Head(b) THEN Head(a) < Head(b)
    ELSE BytesLess(Tail(a), Tail(b))

(***************************************************************************)
(* Python ints as limb sequences.                                          *)
(***************************************************************************)
RECURSIVE StripZeros(_)
StripZeros(l) == IF l # <<>> /\ Head(l) = 0 THEN StripZeros(Tail(l)) ELSE l

IsNeg(n) == n # <<>> /\ Head(n) = -1

PadLimbs(l, k) == [i \in 1..k |-> IF i <= k - Len(l) THEN 0 ELSE l[i - (k - Len(l))]]

LimbsToBytes(l) ==
    [i \in 1..(2 * Len(l)) |->
        IF (i % 2) = 1 THEN l[(i + 1) \div 2] \div 256 ELSE l[i \div 2] % 256]

BytesToLimbs(b) ==
    IF (Len(b) % 2) = 0
    THEN [i \in 1..(Len(b) \div 2) |-> b[2 * i - 1] * 256 + b[2 * i]]
    ELSE [i \in 1..((Len(b) + 1) \div 2) |->
            IF i = 1 THEN b[1] ELSE b[2 * i - 2] * 256 + b[2 * i - 1]]

\* the int of a native length (len(...) is below 2^31 in the model)
IntOf(n) == StripZeros(<<n \div 65536, (n % 65536)>>)

\* a < b for non-negative ints
IntLess(a, b) ==
    \/ Len(a) < Len(b)
    \/ /\ Len(a) = Len(b)
       /\ \E i \in 1..Len(a) :
            /\ a[i] < b[i]
            /\ \A j \in 1..(i - 1) : a[j] = b[j]

\* 0 <= n < 2^(8w)
FitsUnsigned(n, w) ==
    /\ ~IsNeg(n)
    /\ IF w = 1 THEN n = <<>> \/ (Len(n) = 1 /\ n[1] < 256)
       ELSE Len(n) <= w \div 2

\* int.to_bytes(w, byteorder='little')
ToBytesLE(n, w) ==
    LET be == IF w = 1 THEN (IF n = <<>> THEN <<0>> ELSE <<n[1]>>)
              ELSE LimbsToBytes(PadLimbs(n, w \div 2))
    IN  [i \in 1..Len(be) |-> be[Len(be) + 1 - i]]

\* int.to_bytes(w, byteorder='big') / struct's unsigned big-endian field
ToBytesBE(n, w) ==
    IF w = 1 THEN (IF n = <<>> THEN <<0>> ELSE <<n[1]>>)
    ELSE LimbsToBytes(PadLimbs(n, w \div 2))

\* int.from_bytes(b, byteorder='big')
FromBytesBE(b) == StripZeros(BytesToLimbs(b))

\* int.from_bytes of at most two bytes, as a native number (a length)
RECURSIVE LenFromBytes(_)
LenFromBytes(b) ==
    IF b = <<>> THEN 0 ELSE (LenFromBytes(SubSeq(b, 1, Len(b) - 1)) * 256) + b[Len(b)]

\* two's complement of a two-limb magnitude
TwosComp32(l) ==
    <<(65535 - l[1] + (IF l[2] = 0 THEN 1 ELSE 0)) % 65536, (65536 - l[2]) % 65536>>

\* -2^31 <= n < 2^31
FitsSigned32(n) ==
    IF IsNeg(n)
    THEN /\ Len(Tail(n)) <= 2
         /\ LET m == PadLimbs(Tail(n), 2)
            IN  m[1] < 32768 \/ (m[1] = 32768 /\ m[2] = 0)
    ELSE Len(n) <= 2 /\ PadLimbs(n, 2)[1] < 32768

ToBytesSigned32(n) ==
    IF IsNeg(n) THEN LimbsToBytes(TwosComp32(PadLimbs(Tail(n), 2)))
    ELSE LimbsToBytes(PadLimbs(n, 2))

FromBytesSigned32(b) ==
    LET l == BytesToLimbs(b)
    IN  IF l[1] >= 32768 THEN <<-1>> \o StripZeros(TwosComp32(l)) ELSE StripZeros(l)

\* 0xffffffffffffffff - n, for 0 <= n < 2^64
OnesComplement64(n) == StripZeros([i \in 1..4 |-> 65535 - PadLimbs(n, 4)[i]])

(***************************************************************************)
(* str.encode('utf-8') and bytes.decode(): code points below 0x10000.      *)
(***************************************************************************)
EncodeCodePoint(c) ==
    IF c < 128 THEN <<c>>
    ELSE IF c < 2048 THEN <<192 + (c \div 64), 128 + (c % 64)>>
    ELSE <<224 + (c \div 4096), 128 + ((c \div 64) % 64), 128 + (c % 64)>>

RECURSIVE encode(_)
encode(s) == IF s = <<>> THEN <<>> ELSE EncodeCodePoint(Head(s)) \o encode(Tail(s))

IsCont(b, i) == i <= Len(b) /\ b[i] >= 128 /\ b[i] < 192

RECURSIVE decode(_)
decode(b) ==
    IF b = <<>> THEN Ok(<<>>)
    ELSE LET h == Head(b)
             n == IF h < 128 THEN 1
                  ELSE IF h >= 194 /\ h < 224 /\ IsCont(b, 2) THEN 2
                  ELSE IF h >= 224 /\ h < 240 /\ IsCont(b, 2) /\ IsCont(b, 3) THEN 3
                  ELSE 0
             c == IF n = 1 THEN h
                  ELSE IF n = 2 THEN (h - 192) * 64 + (b[2] - 128)
                  ELSE IF n = 3 THEN (h - 224) * 4096 + (b[2] - 128) * 64 + (b[3] - 128)
                  ELSE 0
             valid == /\ n > 0
                      /\ (n = 3 => c >= 2048 /\ ~(c >= 55296 /\ c < 57344))
         IN  IF ~valid THEN Raise
             ELSE LET rest == decode(SubSeq(b, n + 1, Len(b)))
                  IN  IF rest.ok THEN Ok(<<c>> \o rest.val) ELSE Raise

\* a name as its bytes and a terminating zero byte
terminated_name(name) == encode(name) \o <<0>>

\* length_encoded_name(name)
length_encoded_name(name) ==
    LET encoded == encode(name)
    IN  ToBytesBE(IntOf(Len(encoded)), 2) \o encoded

\* the key's bytes with no length in front
Unprefixed(k) == encode(k)

\* length_prefix(key)
length_prefix(k) == ToBytesBE(IntOf(Len(k)), 1) \o encode(k)

\* bool(x) of an int; True is the int 1 and False the int 0
bool(x) == IF x = <<>> THEN <<>> ELSE <<1>>

(***************************************************************************)
(* struct.Struct: a format is the sequence of its field codes.  "B", "H",  *)
(* "L", "Q" are unsigned of 1, 2, 4, 8 bytes, "l" is a signed 4-byte int,  *)
(* "<n>s" is a byte string of n bytes.  Every format is big-endian ('>').  *)
(***************************************************************************)
IsBytesField(f) == f \in {"1s", "4s", "11s", "20s", "32s", "112s"}

FieldWidth(f) ==
    CASE f = "B" -> 1 [] f = "H" -> 2 [] f = "L" -> 4 [] f = "l" -> 4 [] f = "Q" -> 8
      [] f = "1s" -> 1 [] f = "4s" -> 4 [] f = "11s" -> 11 [] f = "20s" -> 20
      [] f = "32s" -> 32 [] f = "112s" -> 112

RECURSIVE StructSize(_)
StructSize(fmt) == IF fmt = <<>> THEN 0 ELSE FieldWidth(Head(fmt)) + StructSize(Tail(fmt))

\* one field of struct.pack: x of Python type t under field code f
PackField(f, x, t) ==
    IF IsBytesField(f)
    THEN IF t # "bytes" THEN Raise
         ELSE Ok([i \in 1..FieldWidth(f) |-> IF i <= Len(x) THEN x[i] ELSE 0])
    ELSE IF t # "int" THEN Raise
    ELSE IF f = "l"
         THEN (IF FitsSigned32(x) THEN Ok(ToBytesSigned32(x)) ELSE Raise)
         ELSE (IF FitsUnsigned(x, FieldWidth(f)) THEN Ok(ToBytesBE(x, FieldWidth(f))) ELSE Raise)

\* struct.Struct(fmt).pack(*args); types are the Python types of args
RECURSIVE StructPack(_, _, _)
StructPack(fmt, args, types) ==
    IF Len(args) # Len(fmt) THEN Raise
    ELSE IF fmt = <<>> THEN Ok(<<>>)
    ELSE LET first == PackField(Head(fmt), Head(args), Head(types))
             rest == StructPack(Tail(fmt), Tail(args), Tail(types))
         IN  IF first.ok /\ rest.ok THEN Ok(first.val \o rest.val) ELSE Raise

UnpackField(f, b) ==
    IF IsBytesField(f) THEN b
    ELSE IF f = "l" THEN FromBytesSigned32(b)
    ELSE FromBytesBE(b)

RECURSIVE UnpackFields(_, _)
UnpackFields(fmt, data) ==
    IF fmt = <<>> THEN <<>>
    ELSE <<UnpackField(Head(fmt), SubSeq(data, 1, FieldWidth(Head(fmt))))>>
            \o UnpackFields(Tail(fmt), SubSeq(data, FieldWidth(Head(fmt)) + 1, Len(data)))

\* struct.Struct(fmt).unpack(data)
StructUnpack(fmt, data) ==
    IF Len(data) # StructSize(fmt) THEN Raise ELSE Ok(UnpackFields(fmt, data))

(***************************************************************************)
(* The row catalog: the rows PrefixDB.__init__ registers, by attribute.    *)
(***************************************************************************)
Rows ==
    <<"claim_to_support", "support_to_claim", "claim_to_txo", "txo_to_claim",
      "claim_to_channel", "channel_to_claim", "claim_short_id", "claim_expiration",
      "claim_takeover", "pending_activation", "activated", "active_amount",
      "effective_amount", "repost", "reposted_claim", "undo", "utxo", "hashX_utxo",
      "hashX_history", "block_hash", "tx_count", "tx_hash", "tx_num", "tx", "header",
      "touched_or_deleted", "channel_count", "db_state", "support_amount", "block_txs",
      "mempool_tx", "trending_notification", "touched_hashX">>

RowSet == {Rows[i] : i \in 1..Len(Rows)}

RowIndex(r) == CHOOSE i \in 1..Len(Rows) : Rows[i] = r

\* DB_PREFIXES.<row>.value: one byte per row.  utxo is b'u' and claim_takeover
\* is b't'; the other rows take the letters from b'A' on, in catalog order.
DB_PREFIXES(r) ==
    CASE r = "utxo" -> 117
      [] r = "claim_takeover" -> 116
      [] OTHER -> 64 + RowIndex(r)

\* cls.prefix, a bytes object of length one
prefix(r) == <<DB_PREFIXES(r)>>

\* cls.key_struct
key_struct(r) ==
    CASE r \in {"claim_to_support", "claim_to_channel", "reposted_claim"} -> <<"20s", "L", "H">>
      [] r \in {"support_to_claim", "txo_to_claim", "channel_to_claim", "claim_short_id"} -> <<"L", "H">>
      [] r \in {"claim_to_txo", "repost", "channel_count", "support_amount"} -> <<"20s">>
      [] r = "claim_expiration" -> <<"L", "L", "H">>
      [] r = "pending_activation" -> <<"L", "B", "L", "H">>
      [] r = "activated" -> <<"B", "L", "H">>
      [] r = "active_amount" -> <<"20s", "B", "L", "L", "H">>
      [] r = "effective_amount" -> <<"Q", "L", "H">>
      [] r = "undo" -> <<"Q", "32s">>
      [] r = "utxo" -> <<"11s", "L", "H">>
      [] r = "hashX_utxo" -> <<"4s", "L", "H">>
      [] r = "hashX_history" -> <<"11s", "L">>
      [] r \in {"block_hash", "tx_count", "tx_hash", "header", "touched_or_deleted",
                "block_txs", "touched_hashX"} -> <<"L">>
      [] r \in {"tx_num", "tx", "mempool_tx"} -> <<"32s">>
      [] r = "trending_notification" -> <<"L", "20s">>
      [] r \in {"db_state", "claim_takeover"} -> <<>>

\* cls.value_struct (<<>> for the rows that declare none)
value_struct(r) ==
    CASE r \in {"claim_to_support", "active_amount", "utxo", "support_amount"} -> <<"Q">>
      [] r \in {"support_to_claim", "txo_to_claim", "claim_to_channel", "channel_to_claim",
                "claim_expiration", "effective_amount", "reposted_claim"} -> <<"20s">>
      [] r = "claim_to_txo" -> <<"L", "H", "L", "H", "Q", "B">>
      [] r = "claim_short_id" -> <<"L", "H">>
      [] r = "claim_takeover" -> <<"20s", "L">>
      [] r = "activated" -> <<"L", "20s">>
      [] r = "hashX_utxo" -> <<"11s">>
      [] r \in {"block_hash", "tx_hash"} -> <<"32s">>
      [] r \in {"tx_count", "tx_num", "channel_count"} -> <<"L">>
      [] r = "header" -> <<"112s">>
      [] r = "touched_or_deleted" -> <<"L", "L">>
      [] r = "db_state" -> <<"32s", "L", "L", "32s", "L", "L", "B", "B", "l", "l", "l", "L">>
      [] r = "trending_notification" -> <<"Q", "Q">>
      [] OTHER -> <<>>

\* The fields of each row's key NamedTuple (the parameters of pack_key), by kind.
KeyFields(r) ==
    CASE r \in {"claim_to_support", "claim_to_channel", "reposted_claim"} -> <<"hash20", "u32", "u16">>
      [] r \in {"support_to_claim", "txo_to_claim"} -> <<"u32", "u16">>
      [] r \in {"claim_to_txo", "repost", "channel_count", "support_amount"} -> <<"hash20">>
      [] r = "channel_to_claim" -> <<"hash20", "name", "u32", "u16">>
      [] r = "claim_short_id" -> <<"name", "short_id", "u32", "u16">>
      [] r = "claim_expiration" -> <<"u32", "u32", "u16">>
      [] r = "claim_takeover" -> <<"name">>
      [] r = "pending_activation" -> <<"u32", "u8", "u32", "u16">>
      [] r = "activated" -> <<"u8", "u32", "u16">>
      [] r = "active_amount" -> <<"hash20", "u8", "u32", "u32", "u16">>
      [] r = "effective_amount" -> <<"name", "u64", "u32", "u16">>
      [] r = "undo" -> <<"u64", "hash32">>
      [] r = "utxo" -> <<"hash11", "u32", "u16">>
      [] r = "hashX_utxo" -> <<"hash4", "u32", "u16">>
      [] r = "hashX_history" -> <<"hash11", "u32">>
      [] r \in {"block_hash", "tx_count", "tx_hash", "header", "touched_or_deleted",
                "block_txs", "touched_hashX"} -> <<"u32">>
      [] r \in {"tx_num", "tx", "mempool_tx"} -> <<"hash32">>
      [] r = "trending_notification" -> <<"u32", "hash20">>
      [] r = "db_state" -> <<>>

\* The fields of each row's value NamedTuple (the parameters of pack_value), by kind.
ValueFields(r) ==
    CASE r \in {"claim_to_support", "active_amount", "utxo", "support_amount"} -> <<"u64">>
      [] r \in {"support_to_claim", "claim_to_channel", "channel_to_claim", "effective_amount",
                "repost", "reposted_claim"} -> <<"hash20">>
      [] r = "claim_to_txo" -> <<"u32", "u16", "u32", "u16", "u64", "bool", "name">>
      [] r \in {"txo_to_claim", "claim_expiration", "pending_activation"} -> <<"hash20", "name">>
      [] r = "claim_short_id" -> <<"u32", "u16">>
      [] r = "claim_takeover" -> <<"hash20", "u32">>
      [] r = "activated" -> <<"u32", "hash20", "name">>
      [] r \in {"undo", "tx", "mempool_tx"} -> <<"raw">>
      [] r = "hashX_utxo" -> <<"hash11">>
      [] r = "hashX_history" -> <<"history">>
      [] r \in {"block_hash", "tx_hash"} -> <<"hash32">>
      [] r \in {"tx_count", "tx_num", "channel_count"} -> <<"u32">>
      [] r = "header" -> <<"header">>
      [] r = "touched_or_deleted" -> <<"claim_set", "claim_set">>
      [] r = "db_state" -> <<"hash32", "u32", "u32", "hash32", "u32", "u32", "bool", "u8",
                             "i32", "i32", "i32", "u32">>
      [] r = "block_txs" -> <<"tx_hashes">>
      [] r = "trending_notification" -> <<"u64", "u64">>
      [] r = "touched_hashX" -> <<"hashXs">>

\* The Python type of a field kind.  A bool is an int.
TypeOf(kind) ==
    CASE kind \in {"u8", "u16", "u32", "u64", "i32", "bool"} -> "int"
      [] kind \in {"hash4", "hash11", "hash20", "hash32", "header", "raw"} -> "bytes"
      [] kind \in {"name", "short_id"} -> "str"
      [] kind = "claim_set" -> "set"
      [] OTHER -> "list"

Types(fields) == [i \in 1..Len(fields) |-> TypeOf(fields[i])]

(***************************************************************************)
(* PrefixRow, the base class of every row: the codec the rows reach with   *)
(* super().                                                                *)
(***************************************************************************)
PrefixRow_pack_key(r, k) ==
    LET body == StructPack(key_struct(r), k, Types(KeyFields(r)))
    IN  IF body.ok THEN Ok(prefix(r) \o body.val) ELSE Raise

PrefixRow_unpack_key(r, k) ==
    IF Slice(k, 0, 1) # prefix(r) THEN Raise
    ELSE StructUnpack(key_struct(r), SliceFrom(k, 1))

PrefixRow_pack_value(r, v) == StructPack(value_struct(r), v, Types(ValueFields(r)))

PrefixRow_unpack_value(r, data) == StructUnpack(value_struct(r), data)

(***************************************************************************)
(* The methods the row classes define themselves.                          *)
(***************************************************************************)
IntTypes(n) == [i \in 1..n |-> "int"]

\* the name stored at data[at:at+2] (length) and data[at+2:at+2+length]
NameAt(data, at) ==
    LET name_len == LenFromBytes(Slice(data, at, at + 2))
    IN  decode(Slice(data, at + 2, at + 2 + name_len))

ClaimToTXOPrefixRow_unpack_key(k) ==
    IF Slice(k, 0, 1) = prefix("claim_to_txo") /\ Len(k) = 21
    THEN Ok(<<SliceFrom(k, 1)>>) ELSE Raise

ClaimToTXOPrefixRow_unpack_value(data) ==
    LET fixed == StructUnpack(value_struct("claim_to_txo"), Slice(data, 0, 21))
        name == NameAt(data, 21)
    IN  IF ~fixed.ok \/ ~name.ok THEN Raise
        ELSE Ok(SubSeq(fixed.val, 1, 5) \o <<bool(fixed.val[6]), name.val>>)

ClaimToTXOPrefixRow_pack_value(v) ==
    LET fixed == StructPack(value_struct("claim_to_txo"), SubSeq(v, 1, 6), IntTypes(6))
    IN  IF fixed.ok THEN Ok(fixed.val \o length_encoded_name(v[7])) ELSE Raise

TXOToClaimPrefixRow_unpack_value(data) ==
    LET fixed == StructUnpack(value_struct("txo_to_claim"), Slice(data, 0, 20))
        name == NameAt(data, 20)
    IN  IF ~fixed.ok \/ ~name.ok THEN Raise ELSE Ok(<<fixed.val[1], name.val>>)

TXOToClaimPrefixRow_pack_value(v) ==
    LET fixed == StructPack(value_struct("txo_to_claim"), <<v[1]>>, <<"bytes">>)
    IN  IF fixed.ok THEN Ok(fixed.val \o length_encoded_name(v[2])) ELSE Raise

ClaimShortIDPrefixRow_pack_key(k) ==
    LET tail == StructPack(key_struct("claim_short_id"), <<k[3], k[4]>>, IntTypes(2))
    IN  IF tail.ok
        THEN Ok(prefix("claim_short_id") \o length_encoded_name(k[1]) \o length_prefix(k[2])
                    \o tail.val)
        ELSE Raise

ClaimShortIDPrefixRow_unpack_key(k) ==
    IF Slice(k, 0, 1) # prefix("claim_short_id") THEN Raise
    ELSE LET name_len == LenFromBytes(Slice(k, 1, 3))
             name == decode(Slice(k, 3, 3 + name_len))
             claim_id_len == LenFromBytes(Slice(k, 3 + name_len, 4 + name_len))
             partial_claim_id == decode(Slice(k, 4 + name_len, 4 + name_len + claim_id_len))
             tail == StructUnpack(key_struct("claim_short_id"),
                                  SliceFrom(k, 4 + name_len + claim_id_len))
         IN  IF name.ok /\ partial_claim_id.ok /\ tail.ok
             THEN Ok(<<name.val, partial_claim_id.val>> \o tail.val)
             ELSE Raise

ChannelToClaimPrefixRow_pack_key(k) ==
    LET tail == StructPack(key_struct("channel_to_claim"), <<k[3], k[4]>>, IntTypes(2))
    IN  IF tail.ok
        THEN Ok(prefix("channel_to_claim") \o k[1] \o length_encoded_name(k[2]) \o tail.val)
        ELSE Raise

ChannelToClaimPrefixRow_unpack_key(k) ==
    IF Slice(k, 0, 1) # prefix("channel_to_claim") THEN Raise
    ELSE LET signing_hash == Slice(k, 1, 21)
             name_len == LenFromBytes(Slice(k, 21, 23))
             name == decode(Slice(k, 23, 23 + name_len))
             tail == StructUnpack(key_struct("channel_to_claim"), SliceFrom(k, 23 + name_len))
         IN  IF name.ok /\ tail.ok THEN Ok(<<signing_hash, name.val>> \o tail.val) ELSE Raise

ClaimExpirationPrefixRow_pack_value(v) ==
    LET fixed == StructPack(value_struct("claim_expiration"), <<v[1]>>, <<"bytes">>)
    IN  IF fixed.ok THEN Ok(fixed.val \o length_encoded_name(v[2])) ELSE Raise

ClaimExpirationPrefixRow_unpack_value(data) ==
    LET name == NameAt(data, 20)
        fixed == StructUnpack(value_struct("claim_expiration"), Slice(data, 0, 20))
    IN  IF ~name.ok \/ ~fixed.ok THEN Raise ELSE Ok(<<fixed.val[1], name.val>>)

ClaimTakeoverPrefixRow_pack_key(k) ==
    Ok(prefix("claim_takeover") \o length_encoded_name(k[1]))

ClaimTakeoverPrefixRow_unpack_key(k) ==
    IF Slice(k, 0, 1) # prefix("claim_takeover") THEN Raise
    ELSE LET name == NameAt(k, 1)
         IN  IF name.ok THEN Ok(<<name.val>>) ELSE Raise

PendingActivationPrefixRow_pack_value(v) == Ok(v[1] \o length_encoded_name(v[2]))

PendingActivationPrefixRow_unpack_value(data) ==
    LET claim_hash == Slice(data, 0, 20)
        name == NameAt(data, 20)
    IN  IF name.ok THEN Ok(<<claim_hash, name.val>>) ELSE Raise

ActivatedPrefixRow_pack_value(v) ==
    LET fixed == StructPack(value_struct("activated"), <<v[1], v[2]>>, <<"int", "bytes">>)
    IN  IF fixed.ok THEN Ok(fixed.val \o length_encoded_name(v[3])) ELSE Raise

ActivatedPrefixRow_unpack_value(data) ==
    LET fixed == StructUnpack(value_struct("activated"), Slice(data, 0, 24))
        name == NameAt(data, 24)
    IN  IF ~fixed.ok \/ ~name.ok THEN Raise ELSE Ok(fixed.val \o <<name.val>>)

\* the effective_amount key with the amount stored as it is, not inverted
PlainAmount_pack_key(k) ==
    LET tail == StructPack(key_struct("effective_amount"), <<k[2], k[3], k[4]>>, IntTypes(3))
    IN  IF tail.ok
        THEN Ok(prefix("effective_amount") \o length_encoded_name(k[1]) \o tail.val)
        ELSE Raise

\* the effective_amount key decoded with the amount read as it is stored
PlainAmount_unpack_key(k) ==
    IF Slice(k, 0, 1) # prefix("effective_amount") THEN Raise
    ELSE LET name_len == LenFromBytes(Slice(k, 1, 3))
             name == decode(Slice(k, 3, 3 + name_len))
             tail == StructUnpack(key_struct("effective_amount"), SliceFrom(k, 3 + name_len))
         IN  IF name.ok /\ tail.ok THEN Ok(<<name.val>> \o tail.val) ELSE Raise

EffectiveAmountPrefixRow_pack_key(k) ==
    IF ~FitsUnsigned(k[2], 8) THEN Raise
    ELSE LET tail == StructPack(key_struct("effective_amount"),
                                <<OnesComplement64(k[2]), k[3], k[4]>>, IntTypes(3))
         IN  IF tail.ok
             THEN Ok(prefix("effective_amount") \o length_encoded_name(k[1]) \o tail.val)
             ELSE Raise

EffectiveAmountPrefixRow_unpack_key(k) ==
    IF Slice(k, 0, 1) # prefix("effective_amount") THEN Raise
    ELSE LET name_len == LenFromBytes(Slice(k, 1, 3))
             name == decode(Slice(k, 3, 3 + name_len))
             tail == StructUnpack(key_struct("effective_amount"), SliceFrom(k, 3 + name_len))
         IN  IF name.ok /\ tail.ok
             THEN Ok(<<name.val, OnesComplement64(tail.val[1]), tail.val[2], tail.val[3]>>)
             ELSE Raise

HeightOnly_pack_key(k) == PrefixRow_pack_key("undo", <<k[1], [i \in 1..32 |-> 0]>>)

UndoPrefixRow_pack_key(k) == PrefixRow_pack_key("undo", k)

UndoPrefixRow_pack_value(v) == Ok(v[1])

Empty_unpack_value(data) == Ok(<<<<>>>>)

UndoPrefixRow_unpack_value(data) == Ok(<<data>>)

\* RepostPrefixRow, TXPrefixRow, MempoolTXPrefixRow: the value is the bytes
\* handed in
Raw_pack_value(v) == Ok(v[1])

Raw_unpack_value(data) == Ok(<<data>>)

Reverse(b) == [i \in 1..Len(b) |-> b[Len(b) + 1 - i]]

\* array.array('I'): 4-byte unsigned items in the byte order of the machine,
\* little-endian on the supported builds
RECURSIVE ArrayToBytes(_)
ArrayToBytes(a) ==
    IF a = <<>> THEN <<>> ELSE Reverse(ToBytesBE(Head(a), 4)) \o ArrayToBytes(Tail(a))

HashXHistoryPrefixRow_pack_value(v) ==
    IF \A i \in 1..Len(v[1]) : FitsUnsigned(v[1][i], 4)
    THEN Ok(ArrayToBytes(v[1])) ELSE Raise

HashXHistoryPrefixRow_unpack_value(data) ==
    IF (Len(data) % 4) # 0 THEN Raise
    ELSE Ok(<<[i \in 1..(Len(data) \div 4) |->
                FromBytesBE(Reverse(SubSeq(data, 4 * i - 3, 4 * i)))]>>)

\* sorted(hashes): the byte strings of a set in ascending order
RECURSIVE sorted(_)
sorted(S) ==
    IF S = {} THEN <<>>
    ELSE LET least == CHOOSE x \in S : \A y \in S \ {x} : BytesLess(x, y)
         IN  <<least>> \o sorted(S \ {least})

\* the n-byte chunks data[n*i : n*(i+1)] for i in range(count)
Chunks(data, n, count) == [i \in 1..count |-> Slice(data, n * (i - 1), n * i)]

TouchedOrDeletedPrefixRow_pack_value(v) ==
    LET touched == v[1]
        deleted == v[2]
    IN  IF \E item \in touched \cup deleted : Len(item) # 20 THEN Raise
        ELSE Ok(ToBytesBE(IntOf(Cardinality(touched)), 4)
                    \o ToBytesBE(IntOf(Cardinality(deleted)), 4)
                    \o Concat(sorted(touched)) \o Concat(sorted(deleted)))

TouchedOrDeletedPrefixRow_unpack_value(data) ==
    LET lens == StructUnpack(value_struct("touched_or_deleted"), Slice(data, 0, 8))
        rest == SliceFrom(data, 8)
    IN  IF ~lens.ok THEN Raise
        \* a count of 2^16 or more cannot match the length of any modelled value
        ELSE IF Len(lens.val[1]) > 1 \/ Len(lens.val[2]) > 1 THEN Raise
        ELSE LET touched_len == (IF lens.val[1] = <<>> THEN 0 ELSE lens.val[1][1])
                 deleted_len == (IF lens.val[2] = <<>> THEN 0 ELSE lens.val[2][1])
                 touched_bytes == Slice(rest, 0, touched_len * 20)
                 deleted_bytes == SliceFrom(rest, touched_len * 20)
             IN  IF Len(rest) # 20 * (touched_len + deleted_len) THEN Raise
                 ELSE Ok(<<{Chunks(touched_bytes, 20, touched_len)[i] : i \in 1..touched_len},
                           {Chunks(deleted_bytes, 20, deleted_len)[i] : i \in 1..deleted_len}>>)

DBStatePrefixRow_pack_key(k) == IF k = <<>> THEN Ok(prefix("db_state")) ELSE Raise

\* unpack_key returns None whatever the key is: it rejects nothing, and the
\* decoded key has no component
DBStatePrefixRow_unpack_key(k) == Ok(<<>>)

DBStatePrefixRow_pack_value(v) ==
    PrefixRow_pack_value("db_state",
        [i \in 1..Len(v) |-> IF i = 7 THEN (IF v[7] # <<>> THEN <<1>> ELSE <<>>) ELSE v[i]])

\* unpack_value without the migration of the 94-byte record
Strict_unpack_value(data) == PrefixRow_unpack_value("db_state", data)

DBStatePrefixRow_unpack_value(data) ==
    PrefixRow_unpack_value("db_state",
        IF Len(data) = 94 THEN data \o Slice(data, 32, 36) ELSE data)

BlockTxsPrefixRow_pack_value(v) ==
    IF \A i \in 1..Len(v[1]) : Len(v[1][i]) = 32 THEN Ok(Concat(v[1])) ELSE Raise

BlockTxsPrefixRow_unpack_value(data) == Ok(<<Chunks(data, 32, Len(data) \div 32)>>)

TouchedHashXPrefixRow_pack_value(v) ==
    IF \A i \in 1..Len(v[1]) : Len(v[1][i]) = 11 THEN Ok(Concat(v[1])) ELSE Raise

TouchedHashXPrefixRow_unpack_value(data) == Ok(<<Chunks(data, 11, Len(data) \div 11)>>)

(***************************************************************************)
(* pack_key, unpack_key, pack_value and unpack_value of a row, by Python's *)
(* method resolution: the class's own method where it defines one and      *)
(* PrefixRow's otherwise.  k and v are the argument tuples.                *)
(***************************************************************************)
pack_key(r, k) ==
    IF Len(k) # Len(KeyFields(r)) THEN Raise
    ELSE CASE r = "channel_to_claim" -> ChannelToClaimPrefixRow_pack_key(k)
           [] r = "claim_short_id" -> ClaimShortIDPrefixRow_pack_key(k)
           [] r = "claim_takeover" -> ClaimTakeoverPrefixRow_pack_key(k)
           [] r = "effective_amount" -> EffectiveAmountPrefixRow_pack_key(k)
           [] r = "db_state" -> DBStatePrefixRow_pack_key(k)
           [] r = "undo" -> UndoPrefixRow_pack_key(k)
           [] OTHER -> PrefixRow_pack_key(r, k)

unpack_key(r, b) ==
    CASE r = "claim_to_txo" -> ClaimToTXOPrefixRow_unpack_key(b)
      [] r = "channel_to_claim" -> ChannelToClaimPrefixRow_unpack_key(b)
      [] r = "claim_short_id" -> ClaimShortIDPrefixRow_unpack_key(b)
      [] r = "claim_takeover" -> ClaimTakeoverPrefixRow_unpack_key(b)
      [] r = "effective_amount" -> EffectiveAmountPrefixRow_unpack_key(b)
      [] r = "db_state" -> DBStatePrefixRow_unpack_key(b)
      [] OTHER -> PrefixRow_unpack_key(r, b)

pack_value(r, v) ==
    IF Len(v) # Len(ValueFields(r)) THEN Raise
    ELSE CASE r = "claim_to_txo" -> ClaimToTXOPrefixRow_pack_value(v)
           [] r = "txo_to_claim" -> TXOToClaimPrefixRow_pack_value(v)
           [] r = "claim_expiration" -> ClaimExpirationPrefixRow_pack_value(v)
           [] r = "pending_activation" -> PendingActivationPrefixRow_pack_value(v)
           [] r = "activated" -> ActivatedPrefixRow_pack_value(v)
           [] r = "undo" -> UndoPrefixRow_pack_value(v)
           [] r \in {"repost", "tx", "mempool_tx"} -> Raw_pack_value(v)
           [] r = "hashX_history" -> HashXHistoryPrefixRow_pack_value(v)
           [] r = "touched_or_deleted" -> TouchedOrDeletedPrefixRow_pack_value(v)
           [] r = "db_state" -> DBStatePrefixRow_pack_value(v)
           [] r = "block_txs" -> BlockTxsPrefixRow_pack_value(v)
           [] r = "touched_hashX" -> TouchedHashXPrefixRow_pack_value(v)
           [] OTHER -> PrefixRow_pack_value(r, v)

unpack_value(r, data) ==
    CASE r = "claim_to_txo" -> ClaimToTXOPrefixRow_unpack_value(data)
      [] r = "txo_to_claim" -> TXOToClaimPrefixRow_unpack_value(data)
      [] r = "claim_expiration" -> ClaimExpirationPrefixRow_unpack_value(data)
      [] r = "pending_activation" -> PendingActivationPrefixRow_unpack_value(data)
      [] r = "activated" -> ActivatedPrefixRow_unpack_value(data)
      [] r = "undo" -> UndoPrefixRow_unpack_value(data)
      [] r \in {"repost", "tx", "mempool_tx"} -> Raw_unpack_value(data)
      [] r = "hashX_history" -> HashXHistoryPrefixRow_unpack_value(data)
      [] r = "touched_or_deleted" -> TouchedOrDeletedPrefixRow_unpack_value(data)
      [] r = "db_state" -> DBStatePrefixRow_unpack_value(data)
      [] r = "block_txs" -> BlockTxsPrefixRow_unpack_value(data)
      [] r = "touched_hashX" -> TouchedHashXPrefixRow_unpack_value(data)
      [] OTHER -> PrefixRow_unpack_value(r, data)

(***************************************************************************)
(* key_part_lambdas: the partial-key builders of a row, level 0 first.     *)
(***************************************************************************)
Lambda(kind, fmt) == [kind |-> kind, fmt |-> fmt]

\* lambda: b'' followed by struct.Struct(f).pack for each leading part f of fmt
StructLevels(fmt) ==
    <<Lambda("empty", <<>>)>> \o [i \in 1..Len(fmt) |-> Lambda("struct", SubSeq(fmt, 1, i))]

key_part_lambdas(r) ==
    CASE r \in {"support_to_claim", "txo_to_claim"} -> <<>>
      [] r = "claim_short_id" ->
            <<Lambda("empty", <<>>), Lambda("length_encoded_name", <<>>),
              Lambda("shortid_key_partial_claim_helper", <<>>)>>
      [] r = "channel_to_claim" ->
            <<Lambda("empty", <<>>), Lambda("struct", <<"20s">>),
              Lambda("channel_to_claim_helper", <<>>),
              Lambda("channel_to_claim_helper", <<"1s">>),
              Lambda("channel_to_claim_helper", <<"L">>),
              Lambda("channel_to_claim_helper", <<"L", "H">>)>>
      [] r = "claim_takeover" ->
            <<Lambda("empty", <<>>), Lambda("length_encoded_name", <<>>)>>
      [] r = "effective_amount" ->
            <<Lambda("empty", <<>>), Lambda("length_encoded_name", <<>>),
              Lambda("shortid_key_helper", <<"Q">>),
              Lambda("shortid_key_helper", <<"Q", "L">>),
              Lambda("shortid_key_helper", <<"Q", "L", "H">>)>>
      [] OTHER -> StructLevels(key_struct(r))

\* shortid_key_helper(struct_fmt)(name, *args)
shortid_key_helper(fmt, args, types) ==
    IF Len(args) < 1 \/ types[1] # "str" THEN Raise
    ELSE LET tail == StructPack(fmt, Tail(args), Tail(types))
         IN  IF tail.ok THEN Ok(length_encoded_name(args[1]) \o tail.val) ELSE Raise

\* shortid_key_partial_claim_helper(name, partial_claim_id)
shortid_key_partial_claim_helper(args, types) ==
    IF Len(args) # 2 \/ types # <<"str", "str">> \/ ~(Len(args[2]) < 40) THEN Raise
    ELSE Ok(length_encoded_name(args[1]) \o length_prefix(args[2]))

\* channel_to_claim_helper(struct_fmt)(signing_hash, name, *args)
channel_to_claim_helper(fmt, args, types) ==
    IF Len(args) < 2 \/ types[1] # "bytes" \/ types[2] # "str" THEN Raise
    ELSE LET tail == StructPack(fmt, SubSeq(args, 3, Len(args)), SubSeq(types, 3, Len(types)))
         IN  IF tail.ok THEN Ok(args[1] \o length_encoded_name(args[2]) \o tail.val) ELSE Raise

\* effective_amount_helper(struct_fmt)(name, *args)
effective_amount_helper(fmt, args, types) ==
    IF Len(args) < 1 \/ types[1] # "str" THEN Raise
    ELSE IF Len(args) = 1 THEN Ok(length_encoded_name(args[1]))
    ELSE IF types[2] # "int" \/ ~FitsUnsigned(args[2], 8) THEN Raise
    ELSE LET tail == StructPack(fmt, <<OnesComplement64(args[2])>> \o SubSeq(args, 3, Len(args)),
                                SubSeq(types, 2, Len(types)))
         IN  IF tail.ok THEN Ok(length_encoded_name(args[1]) \o tail.val) ELSE Raise

\* key_part_lambdas[level](*args): a call with arguments the builder does not
\* take, or that its struct cannot pack, raises
CallLambda(f, args, types) ==
    CASE f.kind = "empty" -> IF args = <<>> THEN Ok(<<>>) ELSE Raise
      [] f.kind = "struct" -> StructPack(f.fmt, args, types)
      [] f.kind = "length_encoded_name" ->
            IF Len(args) = 1 /\ types = <<"str">> THEN Ok(length_encoded_name(args[1])) ELSE Raise
      [] f.kind = "shortid_key_partial_claim_helper" ->
            shortid_key_partial_claim_helper(args, types)
      [] f.kind = "shortid_key_helper" -> shortid_key_helper(f.fmt, args, types)
      [] f.kind = "channel_to_claim_helper" -> channel_to_claim_helper(f.fmt, args, types)

\* the partial key of level i built from the first i components of key k
key_part(r, i, k) ==
    IF i > Len(k) THEN Raise
    ELSE CallLambda(key_part_lambdas(r)[i + 1], SubSeq(k, 1, i),
                    SubSeq(Types(KeyFields(r)), 1, i))

(***************************************************************************)
(* The inputs the codec is exercised on.                                   *)
(***************************************************************************)
MaxNameLen == 2
MaxIdLen == 2
MaxListLen == 2

RECURSIVE SeqsUpTo(_, _)
SeqsUpTo(S, n) ==
    IF n = 0 THEN {<<>>}
    ELSE LET shorter == SeqsUpTo(S, n - 1)
         IN  shorter \cup {Append(t, x) : t \in {u \in shorter : Len(u) = n - 1}, x \in S}

Fill(n, x) == [i \in 1..n |-> x]
Ramp(n) == [i \in 1..n |-> i]
Hashes(n) == {Fill(n, 0), Ramp(n), Fill(n, 255)}

U32Max == <<65535, 65535>>
U64Max == <<65535, 65535, 65535, 65535>>

\* 'a' and U+00E9 in names of every length, and U+20AC (three bytes of UTF-8)
Names == SeqsUpTo({97, 233}, MaxNameLen) \cup {<<8364>>}

\* partial claim ids: hex digits
ShortIds == SeqsUpTo({97, 98}, MaxIdLen) \ {<<>>}

Dom(kind) ==
    CASE kind = "hash4" -> Hashes(4)
      [] kind = "hash11" -> Hashes(11)
      [] kind = "hash20" -> Hashes(20)
      [] kind = "hash32" -> Hashes(32)
      [] kind = "header" -> Hashes(112)
      [] kind = "u8" -> {<<1>>, <<2>>, <<255>>}
      [] kind = "u16" -> {<<>>, <<2>>, <<65535>>}
      [] kind = "u32" -> {<<>>, <<7>>, <<256>>, U32Max}
      [] kind = "u64" -> {<<>>, <<10>>, <<50>>, <<1, 0, 0>>, U64Max}
      [] kind = "i32" -> {<<>>, <<-1, 1>>, <<32767, 65535>>, <<-1, 32768, 0>>}
      [] kind = "bool" -> {<<>>, <<1>>}
      [] kind = "name" -> Names
      [] kind = "short_id" -> ShortIds
      [] kind = "raw" -> {<<>>, <<1, 2, 3>>, Fill(5, 255)}
      [] kind = "history" -> SeqsUpTo({<<>>, <<7>>, U32Max}, MaxListLen)
      [] kind = "claim_set" -> SUBSET Hashes(20)
      [] kind = "tx_hashes" -> SeqsUpTo(Hashes(32), MaxListLen)
      [] kind = "hashXs" -> SeqsUpTo(Hashes(11), MaxListLen)

\* every tuple over the fields
RECURSIVE Product(_)
Product(fields) ==
    IF fields = <<>> THEN {<<>>}
    ELSE {<<x>> \o t : x \in Dom(Head(fields)), t \in Product(Tail(fields))}

\* a fixed tuple over the fields
RECURSIVE Base(_)
Base(fields) ==
    IF fields = <<>> THEN <<>>
    ELSE <<CHOOSE x \in Dom(Head(fields)) : TRUE>> \o Base(Tail(fields))

\* the tuples that differ from Base in at most two fields
Samples(fields) ==
    LET b == Base(fields)
        one == {b} \cup UNION {{[b EXCEPT ![p] = x] : x \in Dom(fields[p])} : p \in 1..Len(fields)}
    IN  UNION {{t} \cup UNION {{[t EXCEPT ![q] = y] : y \in Dom(fields[q])} : q \in 1..Len(fields)} :
                t \in one}

Keys(r) == Product(KeyFields(r))

Values(r) == IF Len(ValueFields(r)) <= 2 THEN Product(ValueFields(r)) ELSE Samples(ValueFields(r))

\* every key with one value, and every value with one key
Items(r) ==
    {<<k, Base(ValueFields(r))>> : k \in Keys(r)}
        \cup {<<Base(KeyFields(r)), v>> : v \in Values(r)}

\* ROW_TYPES: the dispatch table, from the prefix byte of each registered row
\* to the row
ROW_TYPES == [p \in {prefix(r) : r \in RowSet} |-> CHOOSE r \in RowSet : prefix(r) = p]

\* cls.unpack_item(key, value): the decoded key and the decoded value, or the
\* exception of the one that fails
unpack_item(r, k, v) ==
    LET uk == unpack_key(r, k)
        uv == unpack_value(r, v)
    IN  IF uk.ok /\ uv.ok THEN Ok([key |-> uk.val, value |-> uv.val]) ELSE Raise

\* what auto_decode_item gives: the pair as it came, or the result of unpack_item
RawPair(k, v) == [kind |-> "raw", key |-> k, value |-> v]
Item(res) ==
    IF res.ok THEN [kind |-> "item", key |-> res.val.key, value |-> res.val.value]
    ELSE [kind |-> "raise", key |-> <<>>, value |-> <<>>]

\* auto_decode_item where every exception gives the pair as it came
Lenient_auto_decode_item(k, v) ==
    IF SubSeq(k, 1, Min(1, Len(k))) \notin DOMAIN ROW_TYPES THEN RawPair(k, v)
    ELSE LET res == unpack_item(ROW_TYPES[SubSeq(k, 1, 1)], k, v)
         IN  IF res.ok THEN Item(res) ELSE RawPair(k, v)

\* auto_decode_item(key, value): the KeyError of the table lookup is caught;
\* the unpack methods raise AssertionError, struct.error or UnicodeDecodeError,
\* which are not
auto_decode_item(k, v) ==
    IF SubSeq(k, 1, Min(1, Len(k))) \notin DOMAIN ROW_TYPES THEN RawPair(k, v)
    ELSE Item(unpack_item(ROW_TYPES[SubSeq(k, 1, 1)], k, v))

\* auto_decode_item not called
NotDecoded == [called |-> FALSE, key |-> <<>>, value |-> <<>>, out |-> RawPair(<<>>, <<>>)]

NotYet == [key |-> Raise, value |-> Raise]

\* no call of apply_batch or rollback yet
NoCall ==
    [op |-> "none", height |-> 0, block_hash |-> <<>>, ok |-> TRUE, had_entry |-> FALSE,
     direct |-> FALSE, base |-> <<>>, batch |-> <<>>]

\* FeeMessage(): no amount, no currency, no address
FeeMessage == [amount |-> 0, currency |-> "UNKNOWN_CURRENCY", address |-> <<>>]

\* an amount handed to Fee.update: None, or a number of thousandths
NoAmount == [given |-> FALSE, milli |-> 0]
Amount(m) == [given |-> TRUE, milli |-> m]

\* Fee.update not called
NoUpdate ==
    [made |-> FALSE, address |-> None, currency |-> None, amount |-> NoAmount,
     before |-> FeeMessage, ok |-> FALSE, error |-> ""]

\* no fee in the making
IdleFee ==
    /\ fee = FeeMessage
    /\ call = NoUpdate

\* an optional value: None, or the value given
NoneValue == [none |-> TRUE, val |-> <<>>]
Given(v) == [none |-> FALSE, val |-> v]

\* the language message as constructed: every field is the enum's member 0
LanguageMessage == [language |-> 0, script |-> 0, region |-> 0]

\* no setter of Language has been called
NotTagged == [made |-> FALSE, ok |-> FALSE, op |-> "", arg |-> <<>>, read |-> NoneValue]

\* a language that is constructed and not set
IdleLang ==
    /\ lang = LanguageMessage
    /\ tagged = NotTagged

\* a claim of a type, with its extension map (that of its stream, if it is one)
Claim(claim_type, extensions) == [claim_type |-> claim_type, extensions |-> extensions]

\* apply has not returned
NoResult == [ok |-> FALSE, same |-> FALSE, claim |-> Claim(None, <<>>)]

\* a modifier that holds no modification
NoMods == [modification_type |-> None, deletions |-> <<>>, edits |-> <<>>]

\* update has not been called
NoKwargs ==
    [made |-> FALSE, ok |-> FALSE, claim_type |-> None, passed |-> <<>>, returned |-> <<>>,
     before |-> NoMods]

\* no claim handed to apply
IdleApply ==
    /\ reposted = Claim(None, <<>>)
    /\ mods = NoMods
    /\ result = NoResult
    /\ kwargs = NoKwargs

\* no extension map in the making
IdleMerge ==
    /\ claim = <<>>
    /\ modifier = <<>>
    /\ original = <<>>
    /\ trace = <<>>

\* a PrefixDB that is constructed and not written to
IdleStore ==
    /\ store = <<>>
    /\ op_stack = <<>>
    /\ unsafe_prefixes = {}
    /\ height = 0
    /\ staged = 0
    /\ chain = <<>>
    /\ last = NoCall

InitCodec ==
    /\ row \in RowSet
    /\ \E item \in Items(row) : key = item[1] /\ value = item[2]
    /\ packed = NotYet
    /\ decoder = row
    /\ unpacked = NotYet
    /\ parts = <<>>
    /\ decoded = NotDecoded
    /\ pc = "start"
    /\ IdleStore
    /\ IdleMerge
    /\ IdleApply
    /\ IdleFee
    /\ IdleLang

\* row.pack_item(*key, *value)
PackItem ==
    /\ pc = "start"
    /\ packed' = [key |-> pack_key(row, key), value |-> pack_value(row, value)]
    /\ pc' = "packed"
    /\ UNCHANGED <<row, key, value, decoder, unpacked, parts, decoded>>
    /\ UNCHANGED NotCodec

\* row.unpack_item(key, value) on what pack_item returned
UnpackItem ==
    /\ pc = "packed"
    /\ packed.key.ok /\ packed.value.ok
    /\ unpacked' = [key |-> unpack_key(decoder, packed.key.val),
                    value |-> unpack_value(decoder, packed.value.val)]
    /\ pc' = "unpacked"
    /\ UNCHANGED <<row, key, value, packed, decoder, parts, decoded>>
    /\ UNCHANGED NotCodec

\* every listed builder of the row applied to the leading components of the key
BuildKeyParts ==
    /\ pc = "start"
    /\ parts' = [i \in 1..Len(key_part_lambdas(row)) |-> key_part(row, i - 1, key)]
    /\ pc' = "parts"
    /\ UNCHANGED <<row, key, value, packed, decoder, unpacked, decoded>>
    /\ UNCHANGED NotCodec

NextCodec == PackItem \/ UnpackItem \/ BuildKeyParts

SpecCodec == InitCodec /\ [][NextCodec]_vars

(***************************************************************************)
(* Dispatch: a key packed by one row handed to the unpack_key of any row.  *)
(***************************************************************************)
InitDispatch ==
    /\ row \in RowSet
    /\ key \in Samples(KeyFields(row))
    /\ value = Base(ValueFields(row))
    /\ packed = NotYet
    /\ decoder = row
    /\ unpacked = NotYet
    /\ parts = <<>>
    /\ decoded = NotDecoded
    /\ pc = "start"
    /\ IdleStore
    /\ IdleMerge
    /\ IdleApply
    /\ IdleFee
    /\ IdleLang

\* other.unpack_key(key) for a row of the catalog
DecodeWith(other) ==
    /\ pc = "packed"
    /\ packed.key.ok
    /\ decoder' = other
    /\ unpacked' = [unpacked EXCEPT !.key = unpack_key(other, packed.key.val)]
    /\ pc' = "decoded"
    /\ UNCHANGED <<row, key, value, packed, parts, decoded>>
    /\ UNCHANGED NotCodec

NextDispatch == PackItem \/ \E other \in RowSet : DecodeWith(other)

SpecDispatch == InitDispatch /\ [][NextDispatch]_vars

(***************************************************************************)
(* Scan: a stored pair handed to auto_decode_item, under its own first     *)
(* byte, under the prefix of any row, under a byte no row has, or with an  *)
(* empty key.                                                              *)
(***************************************************************************)
ScanBytes == {DB_PREFIXES(r) : r \in RowSet} \cup {0, 255}

\* the key k under the first byte b
Under(b, k) == <<b>> \o Tail(k)

\* auto_decode_item(key, value)
AutoDecodeItem(k) ==
    /\ pc = "packed"
    /\ packed.key.ok /\ packed.value.ok
    /\ decoded' = [called |-> TRUE, key |-> k, value |-> packed.value.val,
                   out |-> auto_decode_item(k, packed.value.val)]
    /\ pc' = "scanned"
    /\ UNCHANGED <<row, key, value, packed, decoder, unpacked, parts>>
    /\ UNCHANGED NotCodec

NextScan ==
    \/ PackItem
    \/ \E b \in ScanBytes : AutoDecodeItem(Under(b, packed.key.val))
    \/ AutoDecodeItem(<<>>)

SpecScan == InitDispatch /\ [][NextScan]_vars

(***************************************************************************)
(* Legacy db_state records: a record written before es_sync_height was     *)
(* added is read, and the decoded state is written again.                  *)
(***************************************************************************)

\* the record of the first eleven fields of v, as the 11-field struct wrote it
Legacy(v) ==
    StructPack(SubSeq(value_struct("db_state"), 1, 11), SubSeq(v, 1, 11),
               SubSeq(Types(ValueFields("db_state")), 1, 11)).val

InitLegacy ==
    /\ row = "db_state"
    /\ key = <<>>
    /\ value \in Values("db_state")
    /\ packed = NotYet
    /\ decoder = row
    /\ unpacked = NotYet
    /\ parts = <<>>
    /\ decoded = NotDecoded
    /\ pc = "start"
    /\ IdleStore
    /\ IdleMerge
    /\ IdleApply
    /\ IdleFee
    /\ IdleLang

\* db_state.unpack_value(data) on the legacy record
ReadLegacy ==
    /\ pc = "start"
    /\ unpacked' = [key |-> unpack_key(row, prefix(row)), value |-> unpack_value(row, Legacy(value))]
    /\ pc' = IF unpacked'.value.ok THEN "read" ELSE "raised"
    /\ UNCHANGED <<row, key, value, packed, decoder, parts, decoded>>
    /\ UNCHANGED NotCodec

\* db_state.pack_item(*state) on the decoded state
Rewrite ==
    /\ pc = "read"
    /\ packed' = [key |-> pack_key(row, key), value |-> pack_value(row, unpacked.value.val)]
    /\ pc' = "rewritten"
    /\ UNCHANGED <<row, key, value, decoder, unpacked, parts, decoded>>
    /\ UNCHANGED NotCodec

NextLegacy == PackItem \/ ReadLegacy \/ Rewrite

SpecLegacy == InitLegacy /\ [][NextLegacy]_vars

(***************************************************************************)
(* Rejection: a stored key, under its own first byte or under a byte no    *)
(* row has, handed to the unpack_key of any row.                           *)
(***************************************************************************)

\* the first byte of the stored key is overwritten
Relabel(b) ==
    /\ pc = "packed"
    /\ packed.key.ok
    /\ packed.key.val[1] # b
    /\ packed' = [packed EXCEPT !.key = Ok(Under(b, packed.key.val))]
    /\ UNCHANGED <<row, key, value, decoder, unpacked, parts, decoded>>
    /\ UNCHANGED pc
    /\ UNCHANGED NotCodec

NextReject ==
    \/ PackItem
    \/ \E b \in {0, 255} : Relabel(b)
    \/ \E other \in RowSet : DecodeWith(other)

SpecReject == InitDispatch /\ [][NextReject]_vars

(***************************************************************************)
(* Tampering: the stored key or value of a row that ends in a length-      *)
(* prefixed name gets a byte of residue or loses its last byte, and is     *)
(* decoded by its row.                                                     *)
(***************************************************************************)

\* the rows whose key or value ends in a length-prefixed name, with the part
NameEnded ==
    [r \in {"claim_to_txo", "txo_to_claim", "claim_expiration", "pending_activation",
            "activated", "claim_takeover"} |->
        IF r = "claim_takeover" THEN "key" ELSE "value"]

InitTamper == InitCodec /\ row \in DOMAIN NameEnded

\* the bytes with a byte after them, or without their last byte
Tampered(b, how) == IF how = "residue" THEN b \o <<0>> ELSE SubSeq(b, 1, Len(b) - 1)

\* the stored bytes of the part that ends in the name are changed, once
Tamper(how) ==
    /\ pc = "packed"
    /\ packed.key.ok /\ packed.value.ok
    /\ packed = [key |-> pack_key(row, key), value |-> pack_value(row, value)]
    /\ packed' = IF NameEnded[row] = "key"
                 THEN [packed EXCEPT !.key = Ok(Tampered(packed.key.val, how))]
                 ELSE [packed EXCEPT !.value = Ok(Tampered(packed.value.val, how))]
    /\ UNCHANGED <<row, key, value, decoder, unpacked, parts, decoded>>
    /\ UNCHANGED pc
    /\ UNCHANGED NotCodec

NextTamper == PackItem \/ (\E how \in {"residue", "truncate"} : Tamper(how)) \/ UnpackItem

SpecTamper == InitTamper /\ [][NextTamper]_vars

(***************************************************************************)
(* The op stack, the write batch and the undo log (scribe/db/interface.py, *)
(* described by the specification): PrefixDB hands every row the store and *)
(* one op stack.  The serialized undo ops are opaque: the value of an undo *)
(* entry is written here as the sequence of inverse ops itself.            *)
(***************************************************************************)
MaxOps == 2
MaxHeight == 1

NoValue == [present |-> FALSE, val |-> <<>>]
Some(v) == [present |-> TRUE, val |-> v]

\* point lookup in the raw store
get(s, k) == IF k \in DOMAIN s THEN Some(s[k]) ELSE NoValue

SetKey(s, k, v) == [x \in (DOMAIN s) \cup {k} |-> IF x = k THEN v ELSE s[x]]

DelKey(s, k) == [x \in (DOMAIN s) \ {k} |-> s[x]]

\* a mutation: (key, old_value_or_none, new_value_or_none)
Op(k, old, new) == [key |-> k, old |-> old, new |-> new]

\* before-image capture: the current value is read from the store and recorded;
\* a row of the unsafe prefixes is written without before-image capture
append_op(stack, s, unsafe, k, new) ==
    Append(stack, Op(k, IF Slice(k, 0, 1) \in unsafe THEN NoValue ELSE get(s, k), new))

\* row.stage_put(key, value)
stage_put(stack, s, unsafe, r, k, v) ==
    append_op(stack, s, unsafe, pack_key(r, k).val, Some(pack_value(r, v).val))

\* row.stage_delete(key)
stage_delete(stack, s, unsafe, r, k) ==
    append_op(stack, s, unsafe, pack_key(r, k).val, NoValue)

apply_op(s, op) ==
    IF op.new.present THEN SetKey(s, op.key, op.new.val) ELSE DelKey(s, op.key)

\* a batch in which only the first op on a key is written
RECURSIVE FirstWriteWins(_, _)
FirstWriteWins(s, ops) ==
    IF ops = <<>> THEN s
    ELSE FirstWriteWins(apply_op(s, Head(ops)),
                        SelectSeq(Tail(ops), LAMBDA o : o.key # Head(ops).key))

\* a batch written back to front
RECURSIVE WriteReversed(_, _)
WriteReversed(s, ops) ==
    IF ops = <<>> THEN s
    ELSE WriteReversed(apply_op(s, ops[Len(ops)]), SubSeq(ops, 1, Len(ops) - 1))

\* one atomic write batch of the engine: the ops in the order enqueued
RECURSIVE WriteBatch(_, _)
WriteBatch(s, ops) ==
    IF ops = <<>> THEN s ELSE WriteBatch(apply_op(s, Head(ops)), Tail(ops))

FirstOf(ops, k) ==
    CHOOSE i \in 1..Len(ops) : ops[i].key = k /\ \A j \in 1..(i - 1) : ops[j].key # k

LastOf(ops, k) ==
    CHOOSE i \in 1..Len(ops) : ops[i].key = k /\ \A j \in (i + 1)..Len(ops) : ops[j].key # k

\* the inverse ops of ops[1..i], newest key first: one op per key, from the
\* last after-image back to the first before-image
RECURSIVE InvertUpTo(_, _)
InvertUpTo(ops, i) ==
    IF i = 0 THEN <<>>
    ELSE (IF FirstOf(ops, ops[i].key) = i
          THEN <<Op(ops[i].key, ops[LastOf(ops, ops[i].key)].new, ops[i].old)>>
          ELSE <<>>) \o InvertUpTo(ops, i - 1)

\* the undo record of a batch
undo_ops(ops) == InvertUpTo(ops, Len(ops))

\* apply_batch at (h, b): the ops and the undo entry in one atomic batch
apply_batch(s, ops, h, b) ==
    WriteBatch(s, ops \o <<Op(pack_key("undo", <<h, b>>).val, NoValue,
                              Some(pack_value("undo", <<undo_ops(ops)>>).val))>>)

\* rollback(h, b): read the undo entry, apply its ops and delete the entry in
\* one atomic batch; without the entry it raises
rollback(s, h, b) ==
    LET k == pack_key("undo", <<h, b>>).val
    IN  IF k \in DOMAIN s
        THEN Ok(WriteBatch(s, unpack_value("undo", s[k]).val[1] \o <<Op(k, Some(s[k]), NoValue)>>))
        ELSE Raise

\* the rows written to, the key written in each and the values written
StoreRows == {"utxo", "mempool_tx"}

StoreKey(r) == Base(KeyFields(r))

StoreValues(r) ==
    IF r = "utxo" THEN {<<<<10>>>>, <<<<50>>>>} ELSE {<<<<1, 2, 3>>>>, <<Fill(5, 255)>>}

FirstValue(r) == IF r = "utxo" THEN <<<<10>>>> ELSE <<<<1, 2, 3>>>>

BlockHashes == {Fill(32, 0), Ramp(32)}

\* the stores left by earlier writes to a set of rows
RECURSIVE StoreOf(_)
StoreOf(R) ==
    IF R = {} THEN <<>>
    ELSE LET r == CHOOSE x \in R : TRUE
         IN  SetKey(StoreOf(R \ {r}), pack_key(r, StoreKey(r)).val,
                    pack_value(r, FirstValue(r)).val)

IdleCodec ==
    /\ row = "utxo"
    /\ key = <<>>
    /\ value = <<>>
    /\ packed = NotYet
    /\ decoder = "utxo"
    /\ unpacked = NotYet
    /\ parts = <<>>
    /\ decoded = NotDecoded

InitStore ==
    /\ IdleCodec
    /\ unsafe_prefixes \in {{}, {prefix("mempool_tx")}}
    /\ store \in {StoreOf(R) : R \in SUBSET StoreRows}
    /\ op_stack = <<>>
    /\ height = 0
    /\ staged = 0
    /\ chain = <<>>
    /\ last = NoCall
    /\ pc = "open"
    /\ IdleMerge
    /\ IdleApply
    /\ IdleFee
    /\ IdleLang

\* db.<row>.stage_put(key, value)
StagePut(r, v) ==
    /\ pc = "open"
    /\ staged < MaxOps
    /\ op_stack' = stage_put(op_stack, store, unsafe_prefixes, r, StoreKey(r), v)
    /\ staged' = staged + 1
    /\ UNCHANGED <<store, unsafe_prefixes, height, chain, last, pc>>
    /\ UNCHANGED NotStore

\* db.<row>.stage_delete(key)
StageDelete(r) ==
    /\ pc = "open"
    /\ staged < MaxOps
    /\ op_stack' = stage_delete(op_stack, store, unsafe_prefixes, r, StoreKey(r))
    /\ staged' = staged + 1
    /\ UNCHANGED <<store, unsafe_prefixes, height, chain, last, pc>>
    /\ UNCHANGED NotStore

\* apply_batch() for the next block, of hash b
ApplyBatch(b) ==
    /\ pc = "open"
    /\ height < MaxHeight
    /\ store' = apply_batch(store, op_stack, IntOf(height + 1), b)
    /\ op_stack' = <<>>
    /\ height' = height + 1
    /\ chain' = Append(chain, [block_hash |-> b, base |-> store, batch |-> op_stack])
    /\ last' = [op |-> "apply_batch", height |-> height + 1, block_hash |-> b, ok |-> TRUE,
                had_entry |-> FALSE, direct |-> FALSE, base |-> store, batch |-> op_stack]
    /\ UNCHANGED <<unsafe_prefixes, staged, pc>>
    /\ UNCHANGED NotStore

\* rollback(height, b) of the last block; a rollback that raises halts the writer
Rollback(b) ==
    /\ pc = "open"
    /\ op_stack = <<>>
    /\ LET had == height > 0 /\ chain[height].block_hash = b
           res == rollback(store, IntOf(height), b)
       IN  /\ last' = [op |-> "rollback", height |-> height, block_hash |-> b, ok |-> res.ok,
                       had_entry |-> had, direct |-> last.op = "apply_batch",
                       base |-> IF had THEN chain[height].base ELSE <<>>,
                       batch |-> IF had THEN chain[height].batch ELSE <<>>]
           /\ IF res.ok
              THEN /\ store' = res.val
                   /\ height' = height - 1
                   /\ chain' = SubSeq(chain, 1, height - 1)
                   /\ pc' = "open"
              ELSE /\ pc' = "halted"
                   /\ UNCHANGED <<store, height, chain>>
    /\ UNCHANGED <<op_stack, unsafe_prefixes, staged>>
    /\ UNCHANGED NotStore

NextStore ==
    \/ \E r \in StoreRows : \E v \in StoreValues(r) : StagePut(r, v)
    \/ \E r \in StoreRows : StageDelete(r)
    \/ \E b \in BlockHashes : ApplyBatch(b)
    \/ \E b \in BlockHashes : Rollback(b)

SpecStore == InitStore /\ [][NextStore]_vars

(***************************************************************************)
(* Extension trees (hub/schema/attrs.py).  A protobuf Value is a record    *)
(* of the field that is set (kind) and the fields of the oneof, the unset  *)
(* ones at their defaults: a number, a string, a list of Values, or a      *)
(* struct, a function from field names to Values.  An extension map is a   *)
(* function from schema names to structs.  A call returns the target it    *)
(* has changed, or raises and leaves the target as changed so far.         *)
(***************************************************************************)
MaxMerges == 2

Failed(v) == [ok |-> FALSE, val |-> v]

Unset ==
    [kind |-> "", number_value |-> 0, string_value |-> "", list_value |-> <<>>,
     struct_value |-> <<>>]

Number(n) == [Unset EXCEPT !.kind = "number_value", !.number_value = n]
String(x) == [Unset EXCEPT !.kind = "string_value", !.string_value = x]
List(l) == [Unset EXCEPT !.kind = "list_value", !.list_value = l]
StructValue(f) == [Unset EXCEPT !.kind = "struct_value", !.struct_value = f]

WhichOneof(v) == v.kind

IsScalar(v) == WhichOneof(v) \notin {"list_value", "struct_value"}

RemoveAt(l, i) == SubSeq(l, 1, i - 1) \o SubSeq(l, i + 1, Len(l))

\* the loop over the modifier's list: for each element o the first equal element
\* of the target's list is looked up, and deleted in delete mode; in add mode o
\* is appended, whether or not an equal element was found
RECURSIVE merge_list_value(_, _, _)
merge_list_value(mine, theirs, delete) ==
    IF theirs = <<>> THEN mine
    ELSE LET o == Head(theirs)
             found == {i \in 1..Len(mine) : mine[i] = o}
             first == CHOOSE i \in found : \A j \in found : i <= j
         IN  merge_list_value(
                 IF delete THEN (IF found = {} THEN mine ELSE RemoveAt(mine, first))
                 ELSE Append(mine, o),
                 Tail(theirs), delete)

\* the body of Struct.merge's loop where add overwrites a scalar that differs
Overwriting_merge_field(fields, k, v, delete) ==
    IF k \notin DOMAIN fields THEN Ok(IF delete THEN fields ELSE SetKey(fields, k, v))
    ELSE LET my_value == fields[k]
         IN  IF WhichOneof(v) # WhichOneof(my_value) \/ ~IsScalar(v) THEN Ok(fields)
             ELSE IF my_value = v THEN Ok(DelKey(fields, k))
             ELSE Ok(IF delete THEN fields ELSE SetKey(fields, k, v))

\* the body of Struct.merge's loop where a leaf of another variant gives way to
\* the modifier's
Coercing_merge_field(fields, k, v, delete) ==
    IF k \in DOMAIN fields /\ WhichOneof(v) # WhichOneof(fields[k])
    THEN Ok(IF delete THEN DelKey(fields, k) ELSE SetKey(fields, k, v))
    ELSE Overwriting_merge_field(fields, k, v, delete)

\* the body of Struct.merge's loop for one field (k, v) of the modifier
Struct_merge_field(fields, k, v, delete) ==
    IF k \notin DOMAIN fields THEN Ok(IF delete THEN fields ELSE SetKey(fields, k, v))
    ELSE LET my_value == fields[k]
             kind == WhichOneof(v)
         IN  IF kind # WhichOneof(my_value) THEN Ok(fields)
             ELSE IF kind = "struct_value"
             THEN \* Struct(my_value).merge(v.struct_value): v.struct_value is a
                  \* protobuf Struct, which has no attribute 'message'
                  IF DOMAIN v.struct_value # {} THEN Failed(fields)
                  ELSE Ok(IF delete THEN DelKey(fields, k) ELSE fields)
             ELSE IF kind = "list_value"
             THEN IF Len(v.list_value) > 0
                  THEN Ok(SetKey(fields, k,
                                 List(merge_list_value(my_value.list_value, v.list_value, delete))))
                  ELSE Ok(IF delete THEN DelKey(fields, k) ELSE fields)
             ELSE IF my_value = v THEN Ok(DelKey(fields, k))
             ELSE Ok(fields)

\* Struct.merge(other, delete): the fields of other in the order the map yields
\* them
RECURSIVE Struct_merge(_, _, _, _)
Struct_merge(fields, other, delete, order) ==
    IF order = <<>> THEN Ok(fields)
    ELSE IF Head(order) \notin DOMAIN other
    THEN Struct_merge(fields, other, delete, Tail(order))
    ELSE LET done == Struct_merge_field(fields, Head(order), other[Head(order)], delete)
         IN  IF done.ok THEN Struct_merge(done.val, other, delete, Tail(order)) ELSE done

\* StreamExtension.merge(ext, delete)
StreamExtension_merge(fields, ext, delete, order) == Struct_merge(fields, ext, delete, order)

\* the body of StreamExtensionMap.merge's loop for one (schema, ext)
StreamExtensionMap_merge_item(message, schema, ext, delete, order) ==
    IF delete /\ DOMAIN ext = {}
    THEN \* del self.message[schema]
         IF schema \in DOMAIN message THEN Ok(DelKey(message, schema)) ELSE Failed(message)
    ELSE \* self.message[schema] makes the entry when there is none
         LET made == IF schema \in DOMAIN message THEN message ELSE SetKey(message, schema, <<>>)
             existing == StreamExtension_merge(made[schema], ext, delete, order)
         IN  [ok |-> existing.ok, val |-> SetKey(made, schema, existing.val)]

\* StreamExtensionMap.merge(exts, delete)
RECURSIVE StreamExtensionMap_merge(_, _, _, _, _)
StreamExtensionMap_merge(message, exts, delete, schemas, order) ==
    IF schemas = <<>> THEN Ok(message)
    ELSE IF Head(schemas) \notin DOMAIN exts
    THEN StreamExtensionMap_merge(message, exts, delete, Tail(schemas), order)
    ELSE LET done == StreamExtensionMap_merge_item(message, Head(schemas),
                                                   exts[Head(schemas)], delete, order)
         IN  IF done.ok
             THEN StreamExtensionMap_merge(done.val, exts, delete, Tail(schemas), order)
             ELSE done

\* the trees the merges are exercised on
Schemas == <<"s">>

Scalars == {Number(1), Number(2), String("x")}

SubStructs == {<<>>} \cup {[k \in {"a"} |-> v] : v \in {Number(1), Number(2)}}

Leaves ==
    Scalars \cup {List(l) : l \in SeqsUpTo({Number(1), Number(2)}, MaxListLen)}
        \cup {StructValue(f) : f \in SubStructs}

\* a struct with any leaf under "a" and a scalar under "b", either of them or none
Structs ==
    UNION {{[k \in K |-> IF k = "a" THEN va ELSE vb] : va \in Leaves, vb \in {Number(1), String("x")}} :
            K \in SUBSET {"a", "b"}}

ExtensionMaps == {<<>>} \cup {[s \in {"s"} |-> f] : f \in Structs}

\* the orders in which a map may yield the fields "a" and "b"
Orders == {<<"a", "b">>, <<"b", "a">>}

InitMerge ==
    /\ IdleCodec
    /\ IdleStore
    /\ IdleApply
    /\ IdleFee
    /\ IdleLang
    /\ original \in ExtensionMaps
    /\ claim = original
    /\ modifier \in ExtensionMaps
    /\ trace = <<>>
    /\ pc = "edit"

\* claim.extensions.merge(modifier, delete=delete); an exception ends the edit
Merge(delete, order) ==
    /\ pc = "edit"
    /\ Len(trace) < MaxMerges
    /\ LET res == StreamExtensionMap_merge(claim, modifier, delete, Schemas, order)
       IN  /\ claim' = res.val
           /\ trace' = Append(trace, [delete |-> delete, ok |-> res.ok, claim |-> res.val])
           /\ pc' = IF res.ok THEN "edit" ELSE "raised"
    /\ UNCHANGED <<modifier, original>>
    /\ UNCHANGED NotMerge

NextMerge == \E delete \in BOOLEAN : \E order \in Orders : Merge(delete, order)

SpecMerge == InitMerge /\ [][NextMerge]_vars

(***************************************************************************)
(* ModifyingClaimReference.apply (hub/schema/attrs.py): the deletions and   *)
(* edits a repost stores, applied to the claim it reposts.                 *)
(***************************************************************************)

\* the claim itself is returned
Same(c) == Ok([same |-> TRUE, claim |-> c])

\* a copy of the claim is returned, with the extension map exts
Copy(c, exts) == Ok([same |-> FALSE, claim |-> Claim(c.claim_type, exts)])

\* apply without the comparison of the two types
Unchecked_apply(self, c, first, second) ==
    IF self.modification_type = None THEN Same(c)
    ELSE LET deleted == StreamExtensionMap_merge(c.extensions, self.deletions, TRUE, Schemas, first)
         IN  IF ~deleted.ok THEN Raise
             ELSE LET edited == StreamExtensionMap_merge(deleted.val, self.edits, FALSE, Schemas, second)
                  IN  IF edited.ok THEN Copy(c, edited.val) ELSE Raise

\* ModifyingClaimReference.apply(reposted); first and second are the orders in
\* which the deletions and the edits yield their fields
ModifyingClaimReference_apply(self, c, first, second) ==
    IF self.modification_type = None \/ self.modification_type # c.claim_type THEN Same(c)
    ELSE IF c.claim_type # "stream" THEN Same(c)
    ELSE LET deleted == StreamExtensionMap_merge(c.extensions, self.deletions, TRUE, Schemas, first)
         IN  IF ~deleted.ok THEN Raise
             ELSE LET edited == StreamExtensionMap_merge(deleted.val, self.edits, FALSE, Schemas, second)
                  IN  IF edited.ok THEN Copy(c, edited.val) ELSE Raise

\* result = claim.Claim(reposted.message): the result is the claim passed in
Aliased(objects) == [objects EXCEPT !.result = "reposted"]

\* m = ClaimMessage(); m.CopyFrom(reposted.message); result = claim.Claim(m)
CopyFrom(objects) == [objects EXCEPT !.claims.m = objects.claims.reposted, !.result = "m"]

\* exts.merge(...): the extension map of the result is left as the merge leaves
\* it, also when the merge raises
MergeInto(objects, merged) ==
    [objects EXCEPT !.claims[objects.result].extensions = merged.val]

\* the claim objects after apply(reposted): reposted is the claim passed in, m
\* the message made by apply, result the name of the claim the merges write to
apply_objects(self, c, first, second) ==
    LET objects == [claims |-> [reposted |-> c, m |-> Claim(None, <<>>)], result |-> "reposted"]
    IN  IF self.modification_type = None \/ self.modification_type # c.claim_type THEN objects
        ELSE IF c.claim_type # "stream" THEN objects
        ELSE LET made == CopyFrom(objects)
                 deleted == StreamExtensionMap_merge(made.claims[made.result].extensions,
                                                     self.deletions, TRUE, Schemas, first)
                 after == MergeInto(made, deleted)
             IN  IF ~deleted.ok THEN after
                 ELSE MergeInto(after,
                                StreamExtensionMap_merge(after.claims[after.result].extensions,
                                                         self.edits, FALSE, Schemas, second))

\* the claims and modifiers apply is exercised on
ClaimTypes == {None, "stream", "channel", "repost"}

\* a struct with a number or a struct under "a" and a list of strings under "b",
\* either of them or none
ApplyStructs ==
    UNION {{[k \in K |-> IF k = "a" THEN va ELSE vb] :
                va \in {Number(1), Number(2), StructValue([x \in {"a"} |-> Number(1)])},
                vb \in {List(<<String("z")>>), List(<<String("x"), String("y")>>)}} :
            K \in SUBSET {"a", "b"}}

ApplyMaps == {<<>>} \cup {[s \in {"s"} |-> f] : f \in ApplyStructs}

InitApply ==
    /\ IdleCodec
    /\ IdleStore
    /\ IdleMerge
    /\ IdleFee
    /\ IdleLang
    /\ \E t \in ClaimTypes, e \in ApplyMaps : reposted = Claim(t, e)
    /\ \E t \in ClaimTypes, d \in ApplyMaps, e \in ApplyMaps :
            mods = [modification_type |-> t, deletions |-> d, edits |-> e]
    /\ result = NoResult
    /\ kwargs = NoKwargs
    /\ pc = "repost"

\* modifier.apply(reposted)
Apply(first, second) ==
    /\ pc = "repost"
    /\ LET res == ModifyingClaimReference_apply(mods, reposted, first, second)
       IN  /\ result' = [ok |-> res.ok,
                         same |-> IF res.ok THEN res.val.same ELSE FALSE,
                         claim |-> IF res.ok THEN res.val.claim ELSE Claim(None, <<>>)]
           /\ pc' = IF res.ok THEN "applied" ELSE "raised"
    /\ reposted' = apply_objects(mods, reposted, first, second).claims.reposted
    /\ mods' = mods
    /\ UNCHANGED kwargs
    /\ UNCHANGED NotApply

NextApply == \E first \in Orders, second \in Orders : Apply(first, second)

SpecApply == InitApply /\ [][NextApply]_vars

(***************************************************************************)
(* ModifyingClaimReference.update: the keyword arguments of an edit are    *)
(* stored in the modifier.  A dict is a function from its keys; a value is *)
(* None or an extension map.                                               *)
(***************************************************************************)

\* kwargs.pop(k, None): the value popped and the dict without the key
Pop(kw, k) == [value |-> IF k \in DOMAIN kw THEN kw[k] ELSE NoneValue, rest |-> DelKey(kw, k)]

\* the modification_type setter: another member of the oneof is selected, empty
modification_type_setter(self, claim_type) ==
    IF self.modification_type = claim_type THEN self
    ELSE IF self.modification_type # None /\ claim_type = None THEN NoMods
    ELSE [modification_type |-> claim_type, deletions |-> <<>>, edits |-> <<>>]

\* the merges of update: clr_exts into the deletions, set_exts into the edits
update_merges(self, clr_exts, set_exts, rest, first, second) ==
    LET deleted == IF clr_exts.none THEN Ok(self.deletions)
                   ELSE StreamExtensionMap_merge(self.deletions, clr_exts.val, FALSE,
                                                 Schemas, first)
        cleared == [self EXCEPT !.deletions = deleted.val]
    IN  IF ~deleted.ok THEN Failed([self |-> cleared, kwargs |-> rest])
        ELSE LET edited == IF set_exts.none THEN Ok(self.edits)
                           ELSE StreamExtensionMap_merge(self.edits, set_exts.val, FALSE,
                                                         Schemas, second)
             IN  [ok |-> edited.ok,
                  val |-> [self |-> [cleared EXCEPT !.edits = edited.val], kwargs |-> rest]]

\* update where the two arguments are read with kwargs.get and stay in kwargs
Peeking_update(self, claim_type, kw, first, second) ==
    IF claim_type # "stream" THEN Ok([self |-> self, kwargs |-> kw])
    ELSE LET clr_exts == Pop(kw, "clear_extensions").value
             set_exts == Pop(kw, "extensions").value
         IN  IF clr_exts.none /\ set_exts.none THEN Ok([self |-> self, kwargs |-> kw])
             ELSE update_merges(modification_type_setter(self, claim_type),
                                clr_exts, set_exts, kw, first, second)

\* ModifyingClaimReference.update(claim_type, **kwargs): the modifier after the
\* call and the dict returned; first and second are the orders in which
\* clear_extensions and extensions yield their fields
ModifyingClaimReference_update(self, claim_type, kw, first, second) ==
    IF claim_type # "stream" THEN Ok([self |-> self, kwargs |-> kw])
    ELSE LET clr == Pop(kw, "clear_extensions")
             set == Pop(clr.rest, "extensions")
         IN  IF clr.value.none /\ set.value.none THEN Ok([self |-> self, kwargs |-> set.rest])
             ELSE LET typed == modification_type_setter(self, claim_type)
                  IN  IF typed.modification_type # "stream"
                      THEN Ok([self |-> typed, kwargs |-> set.rest])
                      ELSE update_merges(typed, clr.value, set.value, set.rest, first, second)

\* the extension maps update is exercised on
UpdateMaps ==
    {<<>>} \cup
    {[s \in {"s"} |-> [k \in {"a"} |-> v]] :
        v \in {Number(1), Number(2), List(<<String("z")>>),
               StructValue([x \in {"a"} |-> Number(1)])}}

\* the keyword arguments: extensions and clear_extensions, each absent, None or
\* a map, and another keyword or none
KeywordValues(k) ==
    IF k = "title" THEN {Given(<<>>)} ELSE {NoneValue} \cup {Given(e) : e \in UpdateMaps}

Keywords ==
    UNION {{kw \in [K -> UNION {KeywordValues(k) : k \in K}] :
                \A k \in K : kw[k] \in KeywordValues(k)} :
            K \in SUBSET {"clear_extensions", "extensions", "title"}}

\* the modifiers: one of no type or of another type holds nothing for a stream
Modifiers ==
    {[modification_type |-> t, deletions |-> <<>>, edits |-> <<>>] : t \in ClaimTypes}
        \cup {[modification_type |-> "stream", deletions |-> d, edits |-> e] :
                d \in UpdateMaps, e \in UpdateMaps}

InitUpdate ==
    /\ IdleCodec
    /\ IdleStore
    /\ IdleMerge
    /\ IdleFee
    /\ IdleLang
    /\ reposted = Claim(None, <<>>)
    /\ result = NoResult
    /\ mods \in Modifiers
    /\ kwargs = NoKwargs
    /\ pc = "modifier"

\* modifier.update(claim_type, **kw); an exception leaves the modifier as the
\* merges left it
Update_call(claim_type, kw, first, second) ==
    /\ pc = "modifier"
    /\ LET res == ModifyingClaimReference_update(mods, claim_type, kw, first, second)
       IN  /\ mods' = res.val.self
           /\ kwargs' = [made |-> TRUE, ok |-> res.ok, claim_type |-> claim_type, passed |-> kw,
                         returned |-> res.val.kwargs, before |-> mods]
           /\ pc' = IF res.ok THEN "updated" ELSE "raised"
    /\ UNCHANGED <<reposted, result>>
    /\ UNCHANGED NotApply

NextUpdate ==
    \E claim_type \in ClaimTypes, kw \in Keywords, first \in Orders, second \in Orders :
        Update_call(claim_type, kw, first, second)

SpecUpdate == InitUpdate /\ [][NextUpdate]_vars

(***************************************************************************)
(* Fee (hub/schema/attrs.py): the fee of a stream, as the amount in the    *)
(* sub-units of its currency, the currency and the address.  A Decimal     *)
(* amount is a number of thousandths.                                      *)
(***************************************************************************)
CENT == 1000000
COIN == 100 * CENT

\* bool(x) of an argument of Fee.update
Truthy(x) == x \notin {None, ""}
TruthyAmount(a) == a.given /\ a.milli # 0

\* str.lower() of the currencies update is exercised on
lower(c) ==
    CASE c = "LBC" -> "lbc"
      [] c = "BTC" -> "btc"
      [] c = "USD" -> "usd"
      [] OTHER -> c

\* Fee.currency: the name of the currency, None when there is none
Fee_currency(self) == IF self.currency # "UNKNOWN_CURRENCY" THEN self.currency ELSE None

\* the setters lbc, btc and usd: int(amount * COIN) dewies or satoshis, or the
\* amount rounded up to the cent, in pennies
Fee_lbc(self, a) == [self EXCEPT !.amount = a.milli * (COIN \div 1000), !.currency = "LBC"]
Fee_btc(self, a) == [self EXCEPT !.amount = a.milli * (COIN \div 1000), !.currency = "BTC"]
Fee_usd(self, a) == [self EXCEPT !.amount = (a.milli + 9) \div 10, !.currency = "USD"]

\* setattr(self, currency, Decimal(amount))
Fee_setattr(self, currency, a) ==
    CASE currency = "lbc" -> Fee_lbc(self, a)
      [] currency = "btc" -> Fee_btc(self, a)
      [] currency = "usd" -> Fee_usd(self, a)

\* Base58.decode of the addresses update is exercised on: "2" and "3" are digits
\* of the alphabet, "0" is not
Base58_decode(address) ==
    CASE address = "2" -> Ok(<<1>>)
      [] address = "3" -> Ok(<<2>>)
      [] OTHER -> Raise

\* the outcome of update: the fee as the call leaves it, and the error raised
Updated(self) == [ok |-> TRUE, error |-> "", fee |-> self]
Error(self, e) == [ok |-> FALSE, error |-> e, fee |-> self]

\* the second half of update: the address
Fee_update_address(self, address) ==
    IF Truthy(address)
    THEN IF Fee_currency(self) = None
         THEN Error(self, "In order to set a fee address, please specify a fee amount and currency.")
         ELSE LET bytes == Base58_decode(address)
              IN  IF bytes.ok THEN Updated([self EXCEPT !.address = bytes.val])
                  ELSE Error(self, "Base58.decode")
    ELSE Updated(self)

\* update where the address is stored before the amount and the currency are
\* looked at
Hasty_update(self, address, currency, amount) ==
    LET bytes == Base58_decode(address)
        addressed == IF Truthy(address) /\ bytes.ok THEN [self EXCEPT !.address = bytes.val]
                     ELSE self
    IN  IF TruthyAmount(amount)
        THEN LET given == IF Truthy(currency) THEN currency
                          ELSE IF Fee_currency(self) # None THEN Fee_currency(self) ELSE ""
                 cur == lower(given)
             IN  IF cur = ""
                 THEN Error(addressed, "In order to set a fee amount, please specify a fee currency.")
                 ELSE IF cur \notin {"lbc", "btc", "usd"}
                 THEN Error(addressed, "Missing or unknown currency provided")
                 ELSE Updated(Fee_setattr(addressed, cur, amount))
        ELSE IF Truthy(currency)
        THEN Error(addressed, "In order to set a fee currency, please specify a fee amount.")
        ELSE IF Truthy(address) /\ Fee_currency(self) = None
        THEN Error(addressed, "In order to set a fee address, please specify a fee amount and currency.")
        ELSE Updated(addressed)

\* Fee.update(address, currency, amount)
Fee_update(self, address, currency, amount) ==
    IF TruthyAmount(amount)
    THEN LET given == IF Truthy(currency) THEN currency
                      ELSE IF Fee_currency(self) # None THEN Fee_currency(self) ELSE ""
             cur == lower(given)
         IN  IF cur = ""
             THEN Error(self, "In order to set a fee amount, please specify a fee currency.")
             ELSE IF cur \notin {"lbc", "btc", "usd"}
             THEN Error(self, "Missing or unknown currency provided")
             ELSE Fee_update_address(Fee_setattr(self, cur, amount), address)
    ELSE IF Truthy(currency)
    THEN Error(self, "In order to set a fee currency, please specify a fee amount.")
    ELSE Fee_update_address(self, address)

\* the arguments update is exercised on
Addresses == {None, "", "2", "3", "0"}
Currencies == {None, "", "lbc", "BTC", "usd", "eur"}
Amounts == {NoAmount, Amount(0), Amount(1), Amount(1500)}

InitFee ==
    /\ IdleCodec
    /\ IdleStore
    /\ IdleMerge
    /\ IdleApply
    /\ IdleLang
    /\ fee = FeeMessage
    /\ call = NoUpdate
    /\ pc = "fee"

\* fee.update(address, currency, amount)
Update(address, currency, amount) ==
    /\ pc = "fee"
    /\ LET res == Fee_update(fee, address, currency, amount)
       IN  /\ fee' = res.fee
           /\ call' = [made |-> TRUE, address |-> address, currency |-> currency,
                       amount |-> amount, before |-> fee, ok |-> res.ok, error |-> res.error]
    /\ UNCHANGED pc
    /\ UNCHANGED NotFee

NextFee ==
    \E address \in Addresses, currency \in Currencies, amount \in Amounts :
        Update(address, currency, amount)

SpecFee == InitFee /\ [][NextFee]_vars

(***************************************************************************)
(* Language (hub/schema/attrs.py): a language tag held as three enum       *)
(* members.  Here a str is a sequence of one-character strings.            *)
(***************************************************************************)
MaxSubtags == 3

\* str.isalpha() and str.isdigit() on the characters of the tags
Letters ==
    {"a", "b", "c", "d", "e", "f", "g", "h", "i", "j", "k", "l", "m", "n", "o", "p", "q", "r",
     "s", "t", "u", "v", "w", "x", "y", "z", "A", "B", "C", "D", "E", "F", "G", "H", "I", "J",
     "K", "L", "M", "N", "O", "P", "Q", "R", "S", "T", "U", "V", "W", "X", "Y", "Z"}
Digits == {"0", "1", "2", "3", "4", "5", "6", "7", "8", "9"}
isalpha(x) == x # <<>> /\ \A i \in 1..Len(x) : x[i] \in Letters
isdigit(x) == x # <<>> /\ \A i \in 1..Len(x) : x[i] \in Digits

\* langtag.split('-')
RECURSIVE split(_)
split(x) ==
    IF \A i \in 1..Len(x) : x[i] # "-" THEN <<x>>
    ELSE LET i == CHOOSE i \in 1..Len(x) : x[i] = "-" /\ \A j \in 1..(i - 1) : x[j] # "-"
         IN  <<SubSeq(x, 1, i - 1)>> \o split(SubSeq(x, i + 1, Len(x)))

\* '-'.join(parts)
RECURSIVE join(_)
join(p) ==
    IF p = <<>> THEN <<>>
    ELSE IF Len(p) = 1 THEN p[1]
    ELSE p[1] \o <<"-">> \o join(Tail(p))

\* some members of the enums of the protobuf messages, each at its number
LanguageNames == <<<<"U", "N", "K", "N", "O", "W", "N">>, <<"e", "n">>, <<"r", "u">>>>
ScriptNames == <<<<"U", "N", "K", "N", "O", "W", "N">>, <<"L", "a", "t", "n">>>>
CountryNames ==
    <<<<"U", "N", "K", "N", "O", "W", "N">>, <<"G", "B">>, <<"R", "U">>, <<"U", "S">>,
      <<"R", "0", "0", "1">>, <<"R", "4", "1", "9">>>>

\* Enum.Value(name): the number of the member, ValueError for a name that is none
EnumValue(names, name) ==
    IF \E i \in 1..Len(names) : names[i] = name
    THEN Ok((CHOOSE i \in 1..Len(names) : names[i] = name) - 1)
    ELSE Raise

\* Enum.Name(number)
EnumName(names, number) == names[number + 1]

\* country_int_to_str(country)
country_int_to_str(country) ==
    LET r == EnumName(CountryNames, country)
    IN  IF r # <<>> /\ r[1] = "R" THEN Tail(r) ELSE r

\* country_str_to_int(country)
country_str_to_int(country) ==
    EnumValue(CountryNames, IF Len(country) = 3 THEN <<"R">> \o country ELSE country)

\* the getters language, script and region: None for the member 0
Language_language(self) ==
    IF self.language # 0 THEN Given(EnumName(LanguageNames, self.language)) ELSE NoneValue
Language_script(self) ==
    IF self.script # 0 THEN Given(EnumName(ScriptNames, self.script)) ELSE NoneValue
Language_region(self) ==
    IF self.region # 0 THEN Given(country_int_to_str(self.region)) ELSE NoneValue

\* the langtag getter
Language_langtag(self) ==
    LET held == SelectSeq(<<Language_language(self), Language_script(self),
                            Language_region(self)>>,
                          LAMBDA v : ~v.none /\ v.val # <<>>)
    IN  join([i \in 1..Len(held) |-> held[i].val])

\* the setters language, script and region: the message after the assignment
Language_set(self, field, number) ==
    IF number.ok THEN Ok([self EXCEPT ![field] = number.val]) ELSE Failed(self)
Language_set_language(self, language) ==
    Language_set(self, "language", EnumValue(LanguageNames, language))
Language_set_script(self, script) == Language_set(self, "script", EnumValue(ScriptNames, script))
Language_set_region(self, region) == Language_set(self, "region", country_str_to_int(region))

\* self.script = parts.pop(0), self.region = parts.pop(0): the first part left
\* is popped and handed to the setter of the field
PopInto(at, field) ==
    LET set == IF field = "script" THEN Language_set_script(at.self, at.parts[1])
               ELSE Language_set_region(at.self, at.parts[1])
    IN  [ok |-> set.ok, self |-> set.val, parts |-> Tail(at.parts)]

\* the langtag setter: the message after it, Failed where it raises
Language_set_langtag(self, langtag) ==
    LET subtags == split(langtag)
        language == Language_set_language(self, Head(subtags))
        at0 == [ok |-> language.ok, self |-> language.val, parts |-> Tail(subtags)]
        at1 == IF at0.ok /\ at0.parts # <<>> /\ Len(at0.parts[1]) = 4
               THEN PopInto(at0, "script") ELSE at0
        at2 == IF at1.ok /\ at1.parts # <<>> /\ Len(at1.parts[1]) = 2 /\ isalpha(at1.parts[1])
               THEN PopInto(at1, "region") ELSE at1
        at3 == IF at2.ok /\ at2.parts # <<>> /\ Len(at2.parts[1]) = 3 /\ isdigit(at2.parts[1])
               THEN PopInto(at2, "region") ELSE at2
    IN  [ok |-> at3.ok /\ at3.parts = <<>>, val |-> at3.self]

\* the subtags the tags are made of, and the tags
Subtags ==
    {<<"e", "n">>, <<"z", "z">>, <<"L", "a", "t", "n">>, <<"U", "S">>, <<"R", "U">>,
     <<"4", "1", "9">>}
Tags == {join(p) : p \in SeqsUpTo(Subtags, MaxSubtags) \ {<<>>}} \cup {<<>>}

\* the region codes: countries, areas, and codes that are no members
Regions ==
    {<<"G", "B">>, <<"R", "U">>, <<"U", "S">>, <<"Z", "Z">>, <<"0", "0", "1">>, <<"4", "1", "9">>,
     <<"9", "9", "9">>}

InitLanguage ==
    /\ IdleCodec
    /\ IdleStore
    /\ IdleMerge
    /\ IdleApply
    /\ IdleFee
    /\ lang \in {LanguageMessage, [language |-> 2, script |-> 1, region |-> 1]}
    /\ tagged = NotTagged
    /\ pc = "language"

\* language.langtag = langtag; the tag is read after it
SetLangtag(langtag) ==
    /\ pc = "language"
    /\ LET set == Language_set_langtag(lang, langtag)
       IN  /\ lang' = set.val
           /\ tagged' = [made |-> TRUE, ok |-> set.ok, op |-> "langtag", arg |-> langtag,
                         read |-> Given(Language_langtag(set.val))]
           /\ pc' = IF set.ok THEN "tagged" ELSE "raised"
    /\ UNCHANGED NotLang

\* language.region = region; the region is read after it
SetRegion(region) ==
    /\ pc = "language"
    /\ LET set == Language_set_region(lang, region)
       IN  /\ lang' = set.val
           /\ tagged' = [made |-> TRUE, ok |-> set.ok, op |-> "region", arg |-> region,
                         read |-> Language_region(set.val)]
           /\ pc' = IF set.ok THEN "tagged" ELSE "raised"
    /\ UNCHANGED NotLang

NextLanguage ==
    \/ \E langtag \in Tags : SetLangtag(langtag)
    \/ \E region \in Regions : SetRegion(region)

SpecLanguage == InitLanguage /\ [][NextLanguage]_vars

(***************************************************************************)
(* Properties of the row codecs.                                           *)
(***************************************************************************)

AmountOrder(k1, k2) ==
    \/ IntLess(k2[2], k1[2])
    \/ k1[2] = k2[2] /\ IntLess(k1[3], k2[3])
    \/ k1[2] = k2[2] /\ k1[3] = k2[3] /\ IntLess(k1[4], k2[4])

\* C6: for effective_amount keys of one name, pack_key(k1) < pack_key(k2) bytewise
\* exactly when k1 comes before k2 by (amount descending, tx_num, position ascending).
EffectiveAmountOrder ==
    pc = "packed" /\ row = "effective_amount" =>
        \A k2 \in Keys("effective_amount") :
            k2[1] = key[1] =>
                (BytesLess(packed.key.val, pack_key("effective_amount", k2).val)
                    <=> AmountOrder(key, k2))

\* C6 witness: a key of amount 50 is packed, and a key of amount 10 of the same
\* name exists to compare it with
WitnessEffectiveAmountOrder ==
    /\ pc = "packed" /\ row = "effective_amount" /\ key[2] = <<50>>
    /\ \E k2 \in Keys("effective_amount") :
            k2[1] = key[1] /\ k2[2] = <<10>> /\ IntLess(k2[3], key[3])

\* C7: every listed partial-key level of every row can be built from the leading
\* components of the key, and level i is a strict byte-prefix of level j for i < j.
PartialKeyPrefix ==
    pc = "parts" =>
        /\ \A i \in 1..Len(parts) : parts[i].ok
        /\ \A i, j \in 1..Len(parts) :
                i < j /\ parts[i].ok /\ parts[j].ok => IsStrictPrefix(parts[i].val, parts[j].val)

\* C8: no row's encoded key is accepted by the unpack_key of another row.
ForeignKeyRejected == pc = "decoded" /\ decoder # row => ~unpacked.key.ok

(***************************************************************************)
(* Properties of the write batch and the undo log.                         *)
(***************************************************************************)
UndoKey(h, b) == pack_key("undo", <<IntOf(h), b>>).val

Touched(ops) == {ops[i].key : i \in 1..Len(ops)}

Safe(ops) == \A k \in Touched(ops) : Slice(k, 0, 1) \notin unsafe_prefixes

\* the last call was a rollback of the block whose apply_batch came right before
\* it, and it succeeded
RolledBack == last.op = "rollback" /\ last.ok /\ last.had_entry /\ last.direct

\* C2 as stated: after apply_batch at (height, block_hash) and rollback(height,
\* block_hash) the store is byte-identical to the store before the ops, and no
\* undo entry is left for (height, block_hash), whatever rows the ops were on.
RollbackRestores ==
    RolledBack =>
        /\ store = last.base
        /\ UndoKey(last.height, last.block_hash) \notin DOMAIN store

\* C2, amended: the same for every batch whose ops are all on rows outside the
\* unsafe prefixes.
RollbackRestoresSafe == Safe(last.batch) => RollbackRestores

\* C2 witness: a batch of two ops, one of which overwrote a held value with
\* another, was committed and rolled back
WitnessRollbackRestores ==
    /\ RolledBack
    /\ Safe(last.batch)
    /\ Len(last.batch) = 2
    /\ \E i \in 1..2 : last.batch[i].old.present /\ last.batch[i].new.present
                            /\ last.batch[i].old # last.batch[i].new

Count(ops, k) == Cardinality({i \in 1..Len(ops) : ops[i].key = k})

\* the undo record of the block committed last holds, for key k, the value k had
\* before the batch, and the store holds the value set by the last op on k
FirstBeforeLastAfter(k) ==
    LET undo == unpack_value("undo", store[UndoKey(last.height, last.block_hash)]).val[1]
        held == {i \in 1..Len(undo) : undo[i].key = k}
    IN  /\ Cardinality(held) = 1
        /\ \A i \in held : undo[i].new = get(last.base, k)
        /\ get(store, k) = last.batch[LastOf(last.batch, k)].new

\* C3 as stated: every key written or deleted several times in one batch has its
\* value before the first op in the undo record and the value of the last op in
\* the store after commit.
DuplicateWrites ==
    last.op = "apply_batch" =>
        \A k \in Touched(last.batch) : Count(last.batch, k) >= 2 => FirstBeforeLastAfter(k)

\* C3, amended: the same for the keys of rows outside the unsafe prefixes.
DuplicateWritesSafe ==
    last.op = "apply_batch" =>
        \A k \in Touched(last.batch) :
            Count(last.batch, k) >= 2 /\ Slice(k, 0, 1) \notin unsafe_prefixes
                => FirstBeforeLastAfter(k)

\* C3 witness: a key that held a value was deleted and written again with
\* another value in one batch, which is committed
WitnessDuplicateWrites ==
    /\ last.op = "apply_batch"
    /\ Len(last.batch) = 2
    /\ last.batch[1].key = last.batch[2].key
    /\ last.batch[1].old.present /\ ~last.batch[1].new.present
    /\ last.batch[2].new.present /\ last.batch[2].new # last.batch[1].old
    /\ Safe(last.batch)

\* the store a reader sees once a whole batch is visible: every key holds what
\* the last op on it set, the other keys what they held
Visible(s, ops) ==
    LET final(k) == IF k \in Touched(ops) THEN ops[LastOf(ops, k)].new ELSE get(s, k)
    IN  [k \in {x \in (DOMAIN s) \cup Touched(ops) : final(x).present} |-> final(k).val]

RollbackOutcome ==
    last.op = "rollback" =>
        /\ last.ok <=> last.had_entry
        /\ last.ok => UndoKey(last.height, last.block_hash) \notin DOMAIN store
        /\ ~last.ok => pc = "halted"

\* C5 witness: a rollback has failed at a height where a block is committed, for
\* another block hash than the one committed
WitnessRollbackOutcome ==
    /\ last.op = "rollback" /\ ~last.ok
    /\ last.height = 1 /\ chain[1].block_hash # last.block_hash

(***************************************************************************)
(* Properties of the merge of extension trees.                             *)
(***************************************************************************)

\* C9: Merge(add) is idempotent: after two merges of the same modifier in add
\* mode the tree is what it was after the first.
MergeIdempotent ==
    Len(trace) >= 2 /\ ~trace[1].delete /\ ~trace[2].delete
        => trace[2].ok /\ trace[2].claim = trace[1].claim

\* the first two calls were Merge(delete) and then Merge(add)
DeleteThenAdd == Len(trace) >= 2 /\ trace[1].delete /\ ~trace[2].delete

\* C10 as stated: for every tree and every modifier, Merge(delete) followed by
\* Merge(add) of the same modifier gives back the tree.
DeleteThenAddRestores ==
    /\ Len(trace) >= 1 /\ trace[1].delete => trace[1].ok
    /\ DeleteThenAdd => trace[2].ok /\ trace[2].claim = original

\* every schema of the modifier is in the tree, names at least one field, and
\* every field it names is in the tree and is a scalar in the modifier
ScalarsOfTree ==
    \A s \in DOMAIN modifier :
        /\ s \in DOMAIN original
        /\ DOMAIN modifier[s] # {}
        /\ \A k \in DOMAIN modifier[s] : k \in DOMAIN original[s] /\ IsScalar(modifier[s][k])

\* C10, amended: Merge(delete) followed by Merge(add) of the same modifier gives
\* back the tree when the modifier names only fields the tree holds and gives a
\* scalar for each.
DeleteThenAddRestoresScalars == ScalarsOfTree => DeleteThenAddRestores

\* C10 witness: the delete removed a scalar the modifier names, left another one
\* that differs, and the add gave the tree back
WitnessDeleteThenAdd ==
    /\ DeleteThenAdd
    /\ ScalarsOfTree
    /\ "s" \in DOMAIN modifier
    /\ DOMAIN modifier["s"] = {"a", "b"}
    /\ DOMAIN trace[1].claim["s"] = (DOMAIN original["s"]) \ {"b"}
    /\ trace[2].claim = original

\* the extension map before the i-th merge
Before(i) == IF i = 1 THEN original ELSE trace[i - 1].claim

\* the fields of schema s that the modifier and the map m both hold, with leaves
\* of different variants
Mismatched(m, s) ==
    IF s \in DOMAIN modifier /\ s \in DOMAIN m
    THEN {k \in DOMAIN modifier[s] \cap DOMAIN m[s] :
            WhichOneof(modifier[s][k]) # WhichOneof(m[s][k])}
    ELSE {}

\* C11: in both modes of merge, a field present on both sides whose two leaves
\* are of different variants is left in the target exactly as it was.
MismatchUntouched ==
    \A i \in 1..Len(trace) : \A s \in DOMAIN modifier :
        \A k \in Mismatched(Before(i), s) :
            /\ s \in DOMAIN trace[i].claim
            /\ k \in DOMAIN trace[i].claim[s]
            /\ trace[i].claim[s][k] = Before(i)[s][k]

\* C11 witness: a delete has removed the scalar under "b" and left a list under
\* "a" for which the modifier holds a number
WitnessMismatchUntouched ==
    /\ Len(trace) = 1
    /\ trace[1].delete
    /\ Mismatched(original, "s") = {"a"}
    /\ original["s"]["a"].kind = "list_value"
    /\ modifier["s"]["a"].kind = "number_value"
    /\ DOMAIN original["s"] = {"a", "b"}
    /\ DOMAIN trace[1].claim["s"] = {"a"}
    /\ trace[1].claim["s"]["a"] = original["s"]["a"]

(***************************************************************************)
(* Properties of ModifyingClaimReference.apply.                            *)
(***************************************************************************)

\* the modification type is set, equals the type of the reposted claim, and is
\* stream
ApplyDefined ==
    /\ mods.modification_type # None
    /\ mods.modification_type = reposted.claim_type
    /\ reposted.claim_type = "stream"

\* C12: apply returns the reposted claim itself, unmodified, unless the
\* modification type is set, equals the reposted claim's type, and is stream.
ApplyOnlyStream ==
    pc # "repost" /\ ~ApplyDefined
        => pc = "applied" /\ result.ok /\ result.same /\ result.claim = reposted

\* C12 witness: a modifier of type stream with deletions that name a field of the
\* reposted channel has been applied, and the channel came back as it was
WitnessApplyOnlyStream ==
    /\ pc = "applied"
    /\ mods.modification_type = "stream"
    /\ reposted.claim_type = "channel"
    /\ mods.deletions = reposted.extensions
    /\ "s" \in DOMAIN reposted.extensions
    /\ DOMAIN reposted.extensions["s"] = {"a", "b"}
    /\ result.same
    /\ result.claim = reposted

\* the extension maps of the example: reposted {s: {a: 1, b: [x, y]}}, edits
\* {s: {b: [z]}}, deletions {s: {a: 1}}, result {s: {b: [x, y, z]}}
ExampleReposted ==
    [s \in {"s"} |-> [k \in {"a", "b"} |->
        IF k = "a" THEN Number(1) ELSE List(<<String("x"), String("y")>>)]]
ExampleEdits == [s \in {"s"} |-> [k \in {"b"} |-> List(<<String("z")>>)]]
ExampleDeletions == [s \in {"s"} |-> [k \in {"a"} |-> Number(1)]]
ExampleResult ==
    [s \in {"s"} |-> [k \in {"b"} |-> List(<<String("x"), String("y"), String("z")>>)]]

\* the fields (schema, name) that both the deletions and the edits name
NamedByBoth ==
    {sk \in {"s"} \X {"a", "b"} :
        /\ sk[1] \in DOMAIN mods.deletions /\ sk[2] \in DOMAIN mods.deletions[sk[1]]
        /\ sk[1] \in DOMAIN mods.edits /\ sk[2] \in DOMAIN mods.edits[sk[1]]}

\* the reposted claim's extension map with the deletions merged in delete mode
\* and then the edits in add mode, under some order of the fields
DeletedThenEdited(exts) ==
    \E first \in Orders, second \in Orders :
        LET deleted == StreamExtensionMap_merge(reposted.extensions, mods.deletions, TRUE,
                                                Schemas, first)
            edited == StreamExtensionMap_merge(deleted.val, mods.edits, FALSE, Schemas, second)
        IN  deleted.ok /\ edited.ok /\ exts = edited.val

\* C13: when apply is defined its result holds the reposted claim's extension map
\* with the deletions merged (delete) first and the edits merged (add) second;
\* the example gives {s: {b: [x, y, z]}}; and a leaf named by both the deletions
\* and the edits is present in the result.
ApplyDeletesThenEdits ==
    pc # "repost" /\ ApplyDefined =>
        /\ result.ok => DeletedThenEdited(result.claim.extensions)
        /\ reposted.extensions = ExampleReposted /\ mods.edits = ExampleEdits
                /\ mods.deletions = ExampleDeletions
            => result.ok /\ result.claim.extensions = ExampleResult
        /\ \A sk \in NamedByBoth :
            /\ result.ok
            /\ sk[1] \in DOMAIN result.claim.extensions
            /\ sk[2] \in DOMAIN result.claim.extensions[sk[1]]

(***************************************************************************)
(* Properties of auto_decode_item.                                         *)
(***************************************************************************)

\* the rows registered under the first byte of the key handed to auto_decode_item
Registered == {r \in RowSet : decoded.key # <<>> /\ DB_PREFIXES(r) = decoded.key[1]}

\* C14: auto_decode_item(key, value) returns the pair (key, value) unchanged when
\* the first byte of key is not the prefix of a registered row, and otherwise
\* exactly what that row's unpack_item(key, value) returns.
AutoDecode ==
    decoded.called =>
        /\ Registered = {} =>
            /\ decoded.out.kind = "raw"
            /\ decoded.out.key = decoded.key
            /\ decoded.out.value = decoded.value
        /\ \A r \in Registered :
            LET uk == unpack_key(r, decoded.key)
                uv == unpack_value(r, decoded.value)
            IN  IF uk.ok /\ uv.ok
                THEN /\ decoded.out.kind = "item"
                     /\ decoded.out.key = uk.val
                     /\ decoded.out.value = uv.val
                ELSE decoded.out.kind = "raise"

\* C14 witness: a pair packed by one row and scanned under the prefix of another
\* row came back as that row's unpack_item decodes it
WitnessAutoDecode ==
    /\ decoded.called
    /\ Registered # {} /\ row \notin Registered
    /\ decoded.out.kind = "item"
    /\ decoded.out.key # key

(***************************************************************************)
(* Properties of the db_state record.                                      *)
(***************************************************************************)

\* C15: unpack_value accepts a 94-byte legacy record and returns its eleven
\* fields with es_sync_height equal to the u32 at bytes [32:36], the height;
\* pack_value produces exactly 98 bytes, also for a decoded legacy record.
LegacyUpgrade ==
    /\ Len(Legacy(value)) = 94
    /\ pc \in {"read", "raised", "rewritten"} =>
        /\ unpacked.value.ok
        /\ SubSeq(unpacked.value.val, 1, 11)
            = StructUnpack(SubSeq(value_struct("db_state"), 1, 11), Legacy(value)).val
        /\ unpacked.value.val[12] = FromBytesBE(Slice(Legacy(value), 32, 36))
        /\ unpacked.value.val[12] = unpacked.value.val[2]
    /\ pc \in {"packed", "rewritten"} => packed.value.ok /\ Len(packed.value.val) = 98

\* C15 witness: a legacy record of height 7 has been read as a state of
\* es_sync_height 7 and written again in 98 bytes that end with the height
WitnessLegacyUpgrade ==
    /\ pc = "rewritten"
    /\ value[2] = <<7>>
    /\ unpacked.value.val[12] = <<7>>
    /\ SubSeq(unpacked.value.val, 1, 11) = SubSeq(value, 1, 11)
    /\ Len(packed.value.val) = 98
    /\ Slice(packed.value.val, 94, 98) = <<0, 0, 0, 7>>

(***************************************************************************)
(* Properties of the order and the prefixes of encoded keys.               *)
(***************************************************************************)

\* the key sought for (name, partial_claim_id) in claim_short_id: the row's
\* prefix and the partial key of level 2
ShortIdSeek == prefix("claim_short_id") \o parts[3].val

\* the keys the sought key is compared with: every name and every partial id,
\* with the (root_tx_num, root_position) of the key or those of the fixed tuple
SeekRivals ==
    {<<n, q>> \o t : n \in Names, q \in ShortIds,
                     t \in {SubSeq(key, 3, 4), SubSeq(Base(KeyFields("claim_short_id")), 3, 4)}}

\* C16: in claim_short_id the partial key built from (name, p) is a byte-prefix
\* of pack_key(name2, q, root_tx_num, root_position) exactly when name2 = name
\* and q = p; a partial id that is a proper prefix of a longer one does not match
\* the longer one's keys.
ShortIdSeekExact ==
    pc = "parts" /\ row = "claim_short_id" =>
        /\ parts[3].ok
        /\ \A k2 \in SeekRivals :
            IsPrefix(ShortIdSeek, pack_key("claim_short_id", k2).val)
                <=> (k2[1] = key[1] /\ k2[2] = key[2])

\* C16 witness: the partial key of (name, "a") is built; it is a prefix of a key
\* of (name, "a") and of none of (name, "ab")
WitnessShortIdSeekExact ==
    /\ pc = "parts" /\ row = "claim_short_id" /\ key[2] = <<97>>
    /\ \E k2 \in SeekRivals :
            /\ k2[1] = key[1] /\ k2[2] = <<97>> /\ k2 # key
            /\ IsPrefix(ShortIdSeek, pack_key("claim_short_id", k2).val)
    /\ \E k2 \in SeekRivals :
            /\ k2[1] = key[1] /\ k2[2] = <<97, 98>>
            /\ ~IsPrefix(ShortIdSeek, pack_key("claim_short_id", k2).val)

\* (a1, b1) before (a2, b2), both components ascending
PairLess(a1, b1, a2, b2) == IntLess(a1, a2) \/ (a1 = a2 /\ IntLess(b1, b2))

\* the height of an item: the first component of the key in claim_expiration and
\* pending_activation, the first component of the value in activated
HeightOf(r, k, v) == IF r = "activated" THEN v[1] ELSE k[1]

\* the txo_type of a key, where the key has one
TxoTypeOf(r, k) ==
    CASE r = "pending_activation" -> k[2]
      [] r = "activated" -> k[1]
      [] OTHER -> <<>>

\* the (tx_num, position) of a key
TxNumOf(r, k) == k[Len(k) - 1]
PositionOf(r, k) == k[Len(k)]

\* the item packed sorts by height first against every item of its row, and by
\* (tx_num, position) among the items of its height and txo_type
HeightFirst ==
    \A item \in Items(row) :
        LET k2 == item[1]
            v2 == item[2]
            before == BytesLess(packed.key.val, pack_key(row, k2).val)
        IN  /\ IntLess(HeightOf(row, key, value), HeightOf(row, k2, v2)) => before
            /\ HeightOf(row, key, value) = HeightOf(row, k2, v2)
                    /\ TxoTypeOf(row, key) = TxoTypeOf(row, k2)
                => (before <=> PairLess(TxNumOf(row, key), PositionOf(row, key),
                                        TxNumOf(row, k2), PositionOf(row, k2)))

\* C17 as stated: in claim_expiration, pending_activation and activated, height
\* is the primary sort component of the encoded key, and keys of equal height
\* (and txo_type) are ordered by ascending (tx_num, position).
HeightOrder ==
    pc = "packed" /\ row \in {"claim_expiration", "pending_activation", "activated"}
        => HeightFirst

\* C17, amended: the same for claim_expiration and pending_activation; the key of
\* activated holds no height, and its keys are ordered by txo_type first and by
\* ascending (tx_num, position) among the keys of one txo_type.
HeightOrderKeyed ==
    /\ pc = "packed" /\ row \in {"claim_expiration", "pending_activation"} => HeightFirst
    /\ pc = "packed" /\ row = "activated" =>
        \A k2 \in Keys("activated") :
            LET before == BytesLess(packed.key.val, pack_key("activated", k2).val)
            IN  /\ IntLess(key[1], k2[1]) => before
                /\ key[1] = k2[1] => (before <=> PairLess(key[2], key[3], k2[2], k2[3]))

\* C17 witness: a pending_activation key of height 256 is packed, and there are a
\* key of height 7 with a larger tx_num, one after which it sorts, and a key of
\* its height and txo_type with a larger position, one before which it sorts
WitnessHeightOrder ==
    /\ pc = "packed" /\ row = "pending_activation" /\ key[1] = <<256>>
    /\ \E k2 \in Keys("pending_activation") :
            /\ k2[1] = <<7>> /\ IntLess(key[3], k2[3])
            /\ BytesLess(pack_key(row, k2).val, packed.key.val)
    /\ \E k2 \in Keys("pending_activation") :
            /\ k2[1] = key[1] /\ k2[2] = key[2] /\ k2[3] = key[3] /\ IntLess(key[4], k2[4])
            /\ BytesLess(packed.key.val, pack_key(row, k2).val)

\* the rows keyed by a length-prefixed name
NameRows == {"claim_takeover", "effective_amount", "claim_short_id"}

\* e1 before e2 by length first, and bytewise among byte strings of one length
ShortLex(e1, e2) == Len(e1) < Len(e2) \/ (Len(e1) = Len(e2) /\ BytesLess(e1, e2))

\* the keys a packed key is compared with: every name, with the other components
\* of the key or those of the fixed tuple
NameRivals ==
    {<<n>> \o t : n \in Names, t \in {Tail(key), Tail(Base(KeyFields(row)))}}

\* C18 as stated: in the rows keyed by a length-prefixed name, every key packed
\* for a name n1 sorts before every key packed for a name n2 when the UTF-8
\* encoding of n1 is lexicographically less than that of n2.
NameOrder ==
    pc = "packed" /\ row \in NameRows =>
        \A k2 \in NameRivals :
            BytesLess(encode(key[1]), encode(k2[1]))
                => BytesLess(packed.key.val, pack_key(row, k2).val)

\* C18, amended: the keys of two different names are ordered by the lengths of
\* the names' UTF-8 encodings first, and lexicographically among names of one
\* encoded length.
NameOrderShortLex ==
    pc = "packed" /\ row \in NameRows =>
        \A k2 \in NameRivals :
            k2[1] # key[1] =>
                (BytesLess(packed.key.val, pack_key(row, k2).val)
                    <=> ShortLex(encode(key[1]), encode(k2[1])))

\* C18 witness: a claim_takeover key of a two-letter name whose encoding takes
\* three bytes is packed; it sorts after the key of a two-byte name that is
\* lexicographically greater, and before the key of the three-byte name that is
WitnessNameOrder ==
    /\ pc = "packed" /\ row = "claim_takeover" /\ key[1] = <<97, 233>>
    /\ \E k2 \in NameRivals :
            /\ k2[1] = <<233>>
            /\ BytesLess(encode(key[1]), encode(k2[1]))
            /\ BytesLess(pack_key(row, k2).val, packed.key.val)
    /\ \E k2 \in NameRivals :
            /\ k2[1] = <<8364>>
            /\ BytesLess(packed.key.val, pack_key(row, k2).val)

(***************************************************************************)
(* Properties of Fee.update.                                               *)
(***************************************************************************)

\* the last call was given an amount that sets a currency: one that is not zero,
\* with a currency, given or stored, that is lbc, btc or usd
AmountSetsCurrency ==
    /\ TruthyAmount(call.amount)
    /\ \/ Truthy(call.currency) /\ lower(call.currency) \in {"lbc", "btc", "usd"}
       \/ ~Truthy(call.currency) /\ call.before.currency # "UNKNOWN_CURRENCY"

\* the last call was given an address while the fee had no currency, stored or
\* set by the amount of the call
AddressWithoutCurrency ==
    /\ Truthy(call.address)
    /\ call.before.currency = "UNKNOWN_CURRENCY"
    /\ ~AmountSetsCurrency

\* the last call was given a currency and no amount
CurrencyWithoutAmount == Truthy(call.currency) /\ ~call.amount.given

\* the last call was given an amount and a currency other than lbc, btc and usd
UnknownCurrency ==
    /\ call.amount.given
    /\ Truthy(call.currency)
    /\ lower(call.currency) \notin {"lbc", "btc", "usd"}

\* C19: Fee.update reports an error when an address is given while the fee has no
\* currency, when a currency is given without an amount, and when an amount is
\* given with a currency other than lbc, btc or usd; after any of these errors
\* the fee's amount, currency and address are what they were before the call.
FeeErrors ==
    call.made /\ (AddressWithoutCurrency \/ CurrencyWithoutAmount \/ UnknownCurrency)
        => ~call.ok /\ fee = call.before

\* C19 witness: a fee of 1.5 lbc with an address was given a new address and an
\* amount in eur; the call failed and the fee is as it was
WitnessFeeErrors ==
    /\ call.made
    /\ call.before = [amount |-> 150000000, currency |-> "LBC", address |-> <<1>>]
    /\ call.address = "3" /\ call.currency = "eur" /\ call.amount = Amount(1)
    /\ UnknownCurrency
    /\ ~call.ok
    /\ fee = call.before

\* C20: for every row of the catalog, unpack_key fails on any key whose first
\* byte is not the row's prefix byte.
PrefixChecked ==
    pc = "decoded" /\ packed.key.val[1] # DB_PREFIXES(decoder) => ~unpacked.key.ok

(***************************************************************************)
(* Properties of the decoding of names.                                    *)
(***************************************************************************)

\* the part of the stored pair that ends in the name, as stored and as packed
StoredNamePart == IF NameEnded[row] = "key" THEN packed.key.val ELSE packed.value.val
PackedNamePart ==
    IF NameEnded[row] = "key" THEN pack_key(row, key).val ELSE pack_value(row, value).val

\* the outcome of decoding that part
NamePartDecoded == IF NameEnded[row] = "key" THEN unpacked.key.ok ELSE unpacked.value.ok

\* C21: for every row whose key or value ends in a length-prefixed name, input
\* with residue after the name and input whose name is shorter than the stated
\* length are rejected rather than decoded.
NameLengthExact ==
    pc = "unpacked" /\ row \in DOMAIN NameEnded /\ StoredNamePart # PackedNamePart
        => ~NamePartDecoded

(***************************************************************************)
(* Properties of the leaves of a merge.                                    *)
(***************************************************************************)

\* the fields of schema s that the modifier and the map m both hold with a leaf
\* of the variant kind
BothHold(m, s, kind) ==
    IF s \in DOMAIN modifier /\ s \in DOMAIN m
    THEN {k \in DOMAIN modifier[s] \cap DOMAIN m[s] :
            WhichOneof(modifier[s][k]) = kind /\ WhichOneof(m[s][k]) = kind}
    ELSE {}

\* the elements of the sequence l
Elements(l) == {l[j] : j \in 1..Len(l)}

\* C22: Merge(add) on a list leaf present on both sides appends only the missing
\* values: afterwards the target list holds every element of the modifier's list,
\* and it has grown by exactly the number of modifier elements it lacked.
ListAddAppendsMissing ==
    \A i \in 1..Len(trace) : \A s \in DOMAIN modifier :
        \A k \in BothHold(Before(i), s, "list_value") :
            ~trace[i].delete =>
                LET mine == Before(i)[s][k].list_value
                    theirs == modifier[s][k].list_value
                    after == trace[i].claim[s][k].list_value
                IN  /\ Elements(theirs) \subseteq Elements(after)
                    /\ Len(after) = Len(mine) +
                            Cardinality({j \in 1..Len(theirs) : theirs[j] \notin Elements(mine)})

\* C23: Merge(delete) on a map leaf present on both sides recurses into the
\* sub-map: the call returns, the target's sub-map is what the delete of the
\* modifier's sub-map leaves of it, and when that is empty the key holding the
\* sub-map is removed from the target.
SubMapDeleteRecurses ==
    \A i \in 1..Len(trace) : \A s \in DOMAIN modifier :
        \A k \in BothHold(Before(i), s, "struct_value") :
            trace[i].delete =>
                LET left == Struct_merge(Before(i)[s][k].struct_value,
                                         modifier[s][k].struct_value, TRUE, <<"a", "b">>)
                    after == trace[i].claim
                IN  /\ trace[i].ok
                    /\ left.ok
                    /\ IF left.val = <<>>
                       THEN s \in DOMAIN after => k \notin DOMAIN after[s]
                       ELSE /\ s \in DOMAIN after
                            /\ k \in DOMAIN after[s]
                            /\ after[s][k] = StructValue(left.val)

(***************************************************************************)
(* Properties of the partial keys of effective_amount.                     *)
(***************************************************************************)

\* C24: for every full key tuple k of effective_amount, each partial key built
\* from the leading components of k, the levels (name, amount), (name, amount,
\* tx_num) and (name, amount, tx_num, position) included, is a byte-prefix of
\* pack_key(k).
EffectiveAmountPartialKey ==
    pc = "parts" /\ row = "effective_amount" =>
        \A i \in 1..Len(parts) :
            /\ parts[i].ok
            /\ IsPrefix(prefix(row) \o parts[i].val, pack_key(row, key).val)

\* the scalar fields of schema s of the map m
ScalarFields(m, s) ==
    IF s \in DOMAIN m THEN {k \in DOMAIN m[s] : IsScalar(m[s][k])} ELSE {}

\* C25: Merge(add) of a scalar leaf present on both sides with different values
\* leaves the target's value as it was; the add never puts another value in the
\* place of a scalar the target holds, so a scalar is changed by an edit only
\* when it was removed before the edit.
ScalarAddKeeps ==
    \A i \in 1..Len(trace) : \A s \in DOMAIN modifier :
        ~trace[i].delete =>
            /\ \A k \in ScalarFields(Before(i), s) \cap ScalarFields(modifier, s) :
                    WhichOneof(Before(i)[s][k]) = WhichOneof(modifier[s][k])
                      /\ Before(i)[s][k] # modifier[s][k]
                        => /\ s \in DOMAIN trace[i].claim
                           /\ k \in DOMAIN trace[i].claim[s]
                           /\ trace[i].claim[s][k] = Before(i)[s][k]
            /\ \A k \in ScalarFields(Before(i), s) :
                    s \in DOMAIN trace[i].claim /\ k \in DOMAIN trace[i].claim[s]
                        => trace[i].claim[s][k] = Before(i)[s][k]

\* C25 witness: an add of the number 2 under "a" has left the number 1 that the
\* target held under "a"
WitnessScalarAddKeeps ==
    /\ Len(trace) >= 1 /\ ~trace[1].delete /\ trace[1].ok
    /\ "s" \in DOMAIN original /\ "s" \in DOMAIN modifier
    /\ "a" \in DOMAIN original["s"] /\ "a" \in DOMAIN modifier["s"]
    /\ original["s"]["a"] = Number(1) /\ modifier["s"]["a"] = Number(2)
    /\ trace[1].claim["s"]["a"] = Number(1)

\* a is a sub-sequence of b: b with some of its elements left out
RECURSIVE IsSubSeq(_, _)
IsSubSeq(a, b) ==
    IF a = <<>> THEN TRUE
    ELSE IF b = <<>> THEN FALSE
    ELSE IF Head(a) = Head(b) THEN IsSubSeq(Tail(a), Tail(b))
    ELSE IsSubSeq(a, Tail(b))

\* the leaf after holds nothing that the leaf before did not hold
LeafShrunk(after, before) ==
    /\ WhichOneof(after) = WhichOneof(before)
    /\ WhichOneof(after) = "list_value" => IsSubSeq(after.list_value, before.list_value)
    /\ WhichOneof(after) = "struct_value" =>
            /\ DOMAIN after.struct_value \subseteq DOMAIN before.struct_value
            /\ \A k \in DOMAIN after.struct_value :
                    after.struct_value[k] = before.struct_value[k]
    /\ IsScalar(after) => after = before

\* C26: Merge(delete) never adds anything to the target: after it, at every
\* nesting level the target's key set is a subset of its key set before, every
\* list is a sub-sequence of the list before, and a modifier key absent from the
\* target leaves the target unchanged.
DeleteNeverAdds ==
    \A i \in 1..Len(trace) :
        trace[i].delete =>
            LET before == Before(i)
                after == trace[i].claim
            IN  /\ DOMAIN after \subseteq DOMAIN before
                /\ \A s \in DOMAIN after \cap DOMAIN before :
                        /\ DOMAIN after[s] \subseteq DOMAIN before[s]
                        /\ \A k \in DOMAIN after[s] \cap DOMAIN before[s] :
                                LeafShrunk(after[s][k], before[s][k])
                /\ \A s \in DOMAIN modifier :
                        s \notin DOMAIN before => after = before
                /\ \A s \in DOMAIN modifier \cap DOMAIN before :
                        \A k \in DOMAIN modifier[s] :
                            k \notin DOMAIN before[s] /\ s \in DOMAIN after
                                => k \notin DOMAIN after[s]

(***************************************************************************)
(* Properties of the objects apply is given.                               *)
(***************************************************************************)

\* C27: apply never mutates its inputs: after it returns, on either branch, the
\* reposted claim passed in and the modifier's stored deletions and edits are
\* equal to what they were before the call.
ApplyKeepsInputs ==
    [][pc = "repost" /\ pc' = "applied" => reposted' = reposted /\ mods' = mods]_vars

\* C27 witness: apply has returned a claim whose extensions differ from those of
\* the reposted claim
WitnessApplyKeepsInputs ==
    /\ pc = "applied" /\ result.ok /\ ~result.same
    /\ result.claim.extensions # reposted.extensions
    /\ mods.deletions # <<>> /\ mods.edits # <<>>

(***************************************************************************)
(* Properties of update.                                                   *)
(***************************************************************************)

\* the two keywords that update handles
Handled == {"clear_extensions", "extensions"}

\* the map m after the keyword value v is merged into it: None merges nothing
MergedInto(m, v) ==
    IF v.none THEN m ELSE StreamExtensionMap_merge(m, v.val, FALSE, Schemas, <<"a", "b">>).val

\* C28: update called with a claim_type other than 'stream', or with neither
\* 'extensions' nor 'clear_extensions' in kwargs, returns kwargs unchanged and
\* leaves the modifier's type, deletions and edits unchanged; in every other case
\* the returned dict is kwargs without exactly those two keys, clear_extensions
\* having been merged into the deletions and extensions into the edits.
UpdateFrame ==
    pc = "updated" =>
        IF kwargs.claim_type # "stream" \/ Handled \cap DOMAIN kwargs.passed = {}
        THEN kwargs.returned = kwargs.passed /\ mods = kwargs.before
        ELSE /\ DOMAIN kwargs.returned = DOMAIN kwargs.passed \ Handled
             /\ \A k \in DOMAIN kwargs.returned : kwargs.returned[k] = kwargs.passed[k]
             /\ mods.deletions =
                    MergedInto(kwargs.before.deletions, Pop(kwargs.passed, "clear_extensions").value)
             /\ mods.edits =
                    MergedInto(kwargs.before.edits, Pop(kwargs.passed, "extensions").value)

\* C28 witness: update of a stream modifier without modifications has stored
\* clear_extensions in the deletions and extensions in the edits, and returned
\* the other keyword alone
WitnessUpdateFrame ==
    /\ pc = "updated" /\ kwargs.claim_type = "stream"
    /\ DOMAIN kwargs.passed = {"clear_extensions", "extensions", "title"}
    /\ DOMAIN kwargs.returned = {"title"}
    /\ kwargs.before = [modification_type |-> "stream", deletions |-> <<>>, edits |-> <<>>]
    /\ ~kwargs.passed["clear_extensions"].none /\ ~kwargs.passed["extensions"].none
    /\ mods.deletions = kwargs.passed["clear_extensions"].val
    /\ mods.edits = kwargs.passed["extensions"].val
    /\ mods.deletions # mods.edits /\ mods.deletions # <<>> /\ mods.edits # <<>>

(***************************************************************************)
(* Properties of Language.                                                 *)
(***************************************************************************)

\* a region subtag: two letters or three digits
IsRegion(p) == (Len(p) = 2 /\ isalpha(p)) \/ (Len(p) = 3 /\ isdigit(p))

\* the parts after the language are an optional script of four characters and
\* an optional region, in that order, and nothing else
Shaped(subtags) ==
    LET rest == Tail(subtags)
    IN  \/ rest = <<>>
        \/ Len(rest) = 1 /\ (Len(rest[1]) = 4 \/ IsRegion(rest[1]))
        \/ Len(rest) = 2 /\ Len(rest[1]) = 4 /\ IsRegion(rest[2])

\* C29: the langtag setter accepts only tags of the shape
\* language[-script][-region], with at most one script subtag and at most one
\* region subtag, in that order; a tag with any further subtag, such as a second
\* region, is rejected.
LangtagShape ==
    tagged.made /\ tagged.op = "langtag" /\ tagged.ok => Shaped(split(tagged.arg))

\* C30: region codes round-trip through Language: for every region code r the
\* region setter accepts, reading region after setting it to r returns r.
RegionRoundTrip ==
    tagged.made /\ tagged.op = "region" /\ tagged.ok => tagged.read = Given(tagged.arg)

====
